---- MODULE Spec2Model ----
(***************************************************************************)
(* State-machine model of ring-mqtt-bridge.                                *)
(*                                                                         *)
(* Spec       the publish/subscribe lifecycle controller (RingMqtt in      *)
(*            src/lib/state.js): MQTT connectivity, discovery, location    *)
(*            websockets, the republish loop, Home Assistant restarts.     *)
(* SpecHistory  the same controller with the history of the run recorded   *)
(*            (what was published since the last MQTT connection, which    *)
(*            websockets were reported connected, discovery runs started). *)
(* SpecToken  the vendor session's refresh token and the state store       *)
(*            (State and RingMqtt.init/setupTokenUpdates in                *)
(*            src/lib/state.js).                                           *)
(* SpecLock   the intercom wrapper (src/devices/intercom.js): lock and     *)
(*            ding entities, their timers and the publish cache.           *)
(* SpecBeam   the beam wrapper (src/devices/beam.js): one command          *)
(*            delivered and processed.                                     *)
(* SpecMedia  the media supervisor (src/lib/mediamtx.js); SpecMediaLive    *)
(*            adds that the timers of its handlers fire.                   *)
(* SpecMapper the device mapper (DeviceMapper and the loop of              *)
(*            processDevices in src/lib/state.js): one device of a drawn   *)
(*            device list mapped and processed.                            *)
(* SpecTopics the topics ContactSensor.init and Beam.init build            *)
(*            (src/devices/contact-sensor.js, src/devices/beam.js).        *)
(* SpecShutdown  RingMqtt.shutdown with the registry changing under it.    *)
(* SpecStore  the state store (State in src/lib/state.js): a state file    *)
(*            is drawn and State.init loads it.                            *)
(*                                                                         *)
(* Every `await` of the source is a point where the running handler        *)
(* yields; a handler is a task whose pc names the await it is suspended    *)
(* at, and one action resumes it and runs it to its next await.            *)
(***************************************************************************)
EXTENDS Integers, Sequences, FiniteSets, Bags, TLC

VARIABLES
    \* ---- lifecycle controller (RingMqtt) ----
    mqttConnected,   \* this.mqttConnected$.value
    locations,       \* this.locations$.value: sequence of location ids
    devices,         \* this.devices$.value: sequence of device wrappers
    republishCount,  \* this.republishCount
    isSubscribed,    \* location.isSubscribed, per location
    isConnected,     \* location.isConnected, per location
    hasHubs,         \* location.hasHubs, per location (fixed by the account)
    enableCameras,   \* utils.config().enable_cameras
    wsValue,         \* location.onConnected._value, per location
    started,         \* go2rtc.started
    tasks,           \* bag of suspended async handlers
    \* ---- calls made by the controller ----
    pubCalls,        \* locations whose devices device.publish() was invoked on by the last step
    offCalls,        \* registry indices device.offline() was invoked on by the last step
    logged,          \* debug() lines of handleHomeAssistantRestart written by the last step
    \* ---- history of the controller, recorded under SpecHistory ----
    pubSince,        \* locations published since the last false->true MQTT transition
    knownAtConn,     \* locations that had registered devices at that transition
    everDisc,        \* MQTT has been disconnected at least once
    wsReported,      \* locations whose websocket was reported connected to the controller
    discoveries,     \* number of initRingData() runs started
    \* ---- vendor session and state store ----
    client,          \* this.client: "null" or "api"
    subscribed,      \* onRefreshTokenUpdated has a subscriber (setupTokenUpdates ran)
    refreshToken,    \* this.refreshToken
    restToken,       \* this.client.restClient.refreshToken
    authPromise,     \* this.client.restClient._authPromise is set
    ringToken,       \* state.data.ring_token
    fileToken,       \* ring_token stored in the state file
    initPc,          \* position of the running init() call
    issued,          \* number of refresh tokens the vendor has issued by rotation
    lastRotated,     \* newest token of a rotation notified with a previous token
    knownGood,       \* token of the latest init() or of a rotation notified since then
    tick,            \* what the watchdog did in the last step: "none" (no tick), "reinject", "skip"
    constructed,     \* the last step ran `new RingApi(ringAuth)`
    initReturn,      \* init() in the last step: "none" (not run), "pending" (suspended), "client" or "false" (returned)
    \* ---- intercom wrapper (Lock in src/devices/intercom.js) ----
    lockState,       \* this.data.lock.state
    lockPublished,   \* this.data.lock.publishedState ("null" for null)
    unlockTimeout,   \* this.data.lock.unlockTimeout: 0 for false, else the timer's id
    dingState,       \* this.data.ding.state
    dingPublished,   \* this.data.ding.publishedState ("null" for null)
    dingTimeout,     \* this.data.ding.timeout: 0 for false, else the timer's id
    timers,          \* timers armed by setTimeout and neither cleared nor expired
    unlocking,       \* setLockState('unlock') calls suspended at `await this.device.unlock()`
    sent,            \* MQTT messages sent by the last step, in order
    unlockCalls,     \* device.unlock() calls made by the last step
    unhandled,       \* an error has propagated out of a handler of the wrapper
    lockOp,          \* the operation of the wrapper the last step ran
    \* ---- beam wrapper (Beam in src/devices/beam.js) ----
    isLightGroup,    \* this.isLightGroup
    groupId,         \* this.groupId
    beamCommand,     \* the command message delivered to the wrapper
    beamPc,          \* "idle": none delivered, "received": delivered, "done": processCommand returned
    vendorCalls,     \* calls on this.device made by processCommand, in order
    \* ---- media supervisor (MediaMTX in src/lib/mediamtx.js) ----
    mtxStarted,      \* this.started: "false", "true" or "shutdown"
    mediamtxProcess, \* this.mediamtxProcess: 0 for false, else the id of the child process
    running,         \* ids of the child processes that have not exited
    closeTasks,      \* 'close' handlers suspended at a sleep: [pid, pc]
    spawned,         \* number of child processes spawned so far (the next id is spawned + 1)
    mtxInitPc,       \* the application's init(cameras) call: "idle", "write" (at the await), "done"
    mtxCameras,      \* the argument of that call
    configFile,      \* the configuration file on disk: whether it exists, and its paths
    configWrite,     \* writeFileAtomic in the init() call of the latest spawn: "none" (not called), "failed", "written"
    shutdownCalled,  \* shutdown() has been called
    mtxOp,           \* what the last step of the supervisor did
    \* ---- device mapper (DeviceMapper in src/lib/state.js) ----
    allDevices,      \* allDevices of processDevices; the device to map is the last one
    mapPc,           \* "idle": no list, "input": list given, "done": the device was processed
    deviceInfo,      \* deviceInfo after mapDevice
    mappedDevice,    \* what `await DeviceMapper.mapDevice(...)` yielded
    processed,       \* what processDevices did with it: "added", "unsupported", "skipped", "thrown"
    \* ---- topics of a wrapper (src/devices/contact-sensor.js, beam.js) ----
    wrapper,         \* what the wrapper holds before init(), and the global scope
    built,           \* per init() call so far: the topics it built, and whether it threw
    \* ---- controller shutdown (RingMqtt.shutdown in src/lib/state.js) ----
    availabilityState, \* availabilityState of each wrapper of devices$.value
    shutdownPc,      \* "running", "go2rtc" (awaiting go2rtc.shutdown()), "sleep", "done"
    shutdownOffline, \* the wrappers shutdown() flagged and called offline() on
    \* ---- state store (State in src/lib/state.js) ----
    store            \* [file: content of the state file, path: this.file, valid, data, pc]

coreVars == <<mqttConnected, locations, devices, republishCount, isSubscribed,
              isConnected, hasHubs, enableCameras, wsValue, started, tasks, pubCalls,
              offCalls, logged>>

histVars == <<pubSince, knownAtConn, everDisc, wsReported, discoveries>>

ctrlVars == <<coreVars, histVars>>

tokenVars == <<client, subscribed, refreshToken, restToken, authPromise,
               ringToken, fileToken, initPc, issued, lastRotated, knownGood, tick,
               constructed, initReturn>>

lockVars == <<lockState, lockPublished, unlockTimeout, dingState, dingPublished,
              dingTimeout, timers, unlocking, sent, unlockCalls, unhandled, lockOp>>

beamVars == <<isLightGroup, groupId, beamCommand, beamPc, vendorCalls>>

mtxVars == <<mtxStarted, mediamtxProcess, running, closeTasks, spawned, mtxInitPc,
             mtxCameras, configFile, configWrite, shutdownCalled, mtxOp>>

mapVars == <<allDevices, mapPc, deviceInfo, mappedDevice, processed>>

topicVars == <<wrapper, built>>

downVars == <<availabilityState, shutdownPc, shutdownOffline>>

storeVars == <<store>>

vars == <<ctrlVars, tokenVars, lockVars, beamVars, mtxVars, mapVars, topicVars, downVars,
          storeVars>>

\* what the steps of one component leave alone
nonCtrlVars == <<tokenVars, lockVars, beamVars, mtxVars, mapVars, topicVars, downVars,
      storeVars>>
nonTokenVars == <<ctrlVars, lockVars, beamVars, mtxVars, mapVars, topicVars, downVars,
      storeVars>>
nonLockVars == <<ctrlVars, tokenVars, beamVars, mtxVars, mapVars, topicVars, downVars,
      storeVars>>
nonBeamVars == <<ctrlVars, tokenVars, lockVars, mtxVars, mapVars, topicVars, downVars,
      storeVars>>
nonMtxVars == <<ctrlVars, tokenVars, lockVars, beamVars, mapVars, topicVars, downVars,
      storeVars>>
nonMapVars == <<ctrlVars, tokenVars, lockVars, beamVars, mtxVars, topicVars, downVars,
      storeVars>>
nonTopicVars == <<ctrlVars, tokenVars, lockVars, beamVars, mtxVars, mapVars, downVars,
      storeVars>>
nonDownVars == <<ctrlVars, tokenVars, lockVars, beamVars, mtxVars, mapVars, topicVars,
      storeVars>>
nonStoreVars == <<ctrlVars, tokenVars, lockVars, beamVars, mtxVars, mapVars, topicVars,
      downVars>>

\* the account and the configuration, fixed for a run
config == <<hasHubs, enableCameras>>

----------------------------------------------------------------------------
(* Bounds *)

NumLocs == 2          \* locations of the account
MaxTasks == 2         \* async handlers suspended at the same time
MaxRotations == 2     \* refresh tokens issued by rotation
MaxPayloadLen == 3    \* characters of a command payload of the beam wrapper
MaxSpawns == 4        \* child processes the media supervisor spawns
MaxCameras == 2       \* cameras handed to the media supervisor
MaxRegistered == 3    \* wrappers in the device registry at shutdown
MaxInits == 2         \* init() calls on one wrapper
MaxSiblings == 2      \* devices of a location besides the one being mapped
MaxPending == 2       \* vendor calls of the intercom wrapper awaited at the same time

(* The debug() lines of handleHomeAssistantRestart *)

LogDuringCycle == "Home Assistant restart detected during existing republish cycle"
LogResend == "Home Assistant restart detected, resending device config/state in 15 seconds"

(* Program constants *)

RepublishDefault == 6

Locs == 1..NumLocs

----------------------------------------------------------------------------
(* The vendor account.  location.getDevices() yields hub-attached devices  *)
(* only for a location with hubs; location.cameras exists for any          *)
(* location and is used when enable_cameras is set.  enable_modes is off.  *)
(* A raw device is [id, camera].                                           *)

SensorOf(l) == [id |-> 10 * l + 1, camera |-> FALSE]
CameraOf(l) == [id |-> 10 * l + 2, camera |-> TRUE]

\* allDevices of processDevices: [...devices, ...cameras, ...chimes, ...intercoms]
AllDevices(l) ==
    (IF hasHubs[l] THEN <<SensorOf(l)>> ELSE <<>>)
        \o (IF enableCameras THEN <<CameraOf(l)>> ELSE <<>>)

----------------------------------------------------------------------------
(* Tasks *)

NoTask == [kind |-> "none", pc |-> "none", loc |-> 0, dev |-> 0, n |-> 0]

MqttTask == [NoTask EXCEPT !.kind = "mqtt"]
GetLocationsTask == [MqttTask EXCEPT !.pc = "getLocations"]
HaTask == [NoTask EXCEPT !.kind = "ha", !.pc = "sleep15"]
WsTask(l, pc) == [NoTask EXCEPT !.kind = "ws", !.pc = pc, !.loc = l]

TaskSet == BagToSet(tasks)

\* `await DeviceMapper.mapDevice(...)` waits for nothing: the handler
\* resumes in the same turn of the event loop, before any timer, event or
\* answer is handled
NoMicrotask == \A t \in BagToSet(tasks) : t.pc # "mapDevice"
NumTasks == BagCardinality(tasks)

Put(b, t) == b (+) SetToBag({t})
Take(b, t) == b (-) SetToBag({t})

----------------------------------------------------------------------------
(* Registry helpers *)

\* a device wrapper as the controller sees it: deviceId, locationId, camera
Wrapper(d, l) == [deviceId |-> d.id, locationId |-> l, camera |-> d.camera]

\* this.devices$.value.find(d => d.deviceId === deviceId) finds something
Registered(devs, id) == \E i \in 1..Len(devs) : devs[i].deviceId = id

\* this.devices$.value.filter(d => d.locationId === location.locationId)
LocationDevices(l) == {i \in 1..Len(devices) : devices[i].locationId = l}

\* this.locations$.value.find(l => l.locationId === location.locationId) finds something
KnownLocation(locs, l) == \E i \in 1..Len(locs) : locs[i] = l

\* the locations that have a registered device
WithDevices == {l \in Locs : LocationDevices(l) # {}}

----------------------------------------------------------------------------
(* publishLocations / subscribeToLocationWebsocket / publishDevices, run   *)
(* up to the next await that waits for a timer.  (After an                 *)
(* `await this.publishDevices(location)` that returns without having       *)
(* slept, publishLocations resumes in the same turn of the event loop.)    *)
(* A context c carries what the run has written so far: sub               *)
(* (isSubscribed), con (isConnected), spawn (handlers started and left     *)
(* suspended), pub (the locations whose registered devices were            *)
(* published).                                                             *)

Ctx0 == [sub |-> isSubscribed, con |-> isConnected, spawn |-> EmptyBag, pub |-> {}]

LoopCond_Inclusive(cnt, mq) == cnt >= 0 /\ mq

\* the while condition of publishDevices
LoopCond(cnt, mq) == cnt > 0 /\ mq

\* the subscriber of location.onConnected, called with value v
OnConnected(l, v, c, cnt, mq) ==
    IF v /\ ~c.con[l]
    THEN LET c1 == [c EXCEPT !.con[l] = TRUE]
         IN  IF LoopCond(cnt, mq)
             THEN [c1 EXCEPT !.pub = @ \cup {l},
                             !.spawn = Put(@, WsTask(l, "loop"))]
             ELSE c1
    ELSE IF ~v
    THEN [c EXCEPT !.spawn = Put(@, WsTask(l, "grace"))]
    ELSE c

\* subscribeToLocationWebsocket: a BehaviorSubject calls a new subscriber
\* at once with its current value
SubscribeToLocationWebsocket(l, c, cnt, mq) ==
    OnConnected(l, wsValue[l], [c EXCEPT !.sub[l] = TRUE], cnt, mq)

\* publishLocations from position i of the snapshot of length t.n
RECURSIVE PublishLocations(_, _, _, _, _)
PublishLocations(t, i, c, cnt, mq) ==
    IF i > t.n
    THEN [done |-> TRUE, t |-> t, c |-> c]
    ELSE LET l == locations[i] IN
         IF LocationDevices(l) = {}
         THEN PublishLocations(t, i + 1, c, cnt, mq)
         ELSE IF hasHubs[l] /\ ~c.sub[l]
         THEN PublishLocations(t, i + 1, SubscribeToLocationWebsocket(l, c, cnt, mq), cnt, mq)
         ELSE IF LoopCond(cnt, mq)
         THEN [done |-> FALSE,
               t |-> [t EXCEPT !.pc = "loop", !.loc = i],
               c |-> [c EXCEPT !.pub = @ \cup {l}]]
         ELSE PublishLocations(t, i + 1, c, cnt, mq)

\* writes of a run r that started from the tasks base
Effects(base, r) ==
    /\ tasks' = (IF r.done THEN base ELSE Put(base, r.t)) (+) r.c.spawn
    /\ BagCardinality(tasks') <= MaxTasks
    /\ isSubscribed' = r.c.sub
    /\ isConnected' = r.c.con
    /\ pubCalls' = r.c.pub
    /\ offCalls' = {}
    /\ logged' = {}

----------------------------------------------------------------------------
(* initRingData / processLocation / processDevices, run up to the next     *)
(* await: continue at device j of location l (j = 0: start the location).  *)
(* For a location without hubs and without cameras getLocationDevices      *)
(* resolves at once with empty lists, and the run goes on.                 *)

RECURSIVE Discover(_, _, _, _, _)
Discover(t, l, j, locs, devs) ==
    IF l > NumLocs
    THEN LET cameras == \E i \in 1..Len(devs) : devs[i].camera
         IN  [t |-> [t EXCEPT !.pc = "initTail", !.loc = 0, !.dev = 0],
              locs |-> locs,
              started |-> started \/ cameras]
    ELSE IF j = 0
    THEN LET locs1 == IF KnownLocation(locs, l) THEN locs ELSE Append(locs, l)
         IN  IF AllDevices(l) = <<>>
             THEN Discover(t, l + 1, 0, locs1, devs)
             ELSE [t |-> [t EXCEPT !.pc = "getDevices", !.loc = l, !.dev = 0],
                   locs |-> locs1, started |-> started]
    ELSE IF j > Len(AllDevices(l))
    THEN Discover(t, l + 1, 0, locs, devs)
    ELSE IF Registered(devs, AllDevices(l)[j].id)
    THEN Discover(t, l, j + 1, locs, devs)
    ELSE [t |-> [t EXCEPT !.pc = "mapDevice", !.loc = l, !.dev = j],
          locs |-> locs, started |-> started]

\* k handlers suspended like t resume and reach r.t
DiscoveryStep(t, k, r) ==
    /\ tasks' = (tasks (-) [x \in {t} |-> k]) (+) [x \in {r.t} |-> k]
    /\ locations' = r.locs
    /\ started' = r.started
    /\ pubCalls' = {}
    /\ offCalls' = {}
    /\ logged' = {}
    /\ UNCHANGED <<mqttConnected, republishCount, isSubscribed, isConnected, config,
                   wsValue>>

----------------------------------------------------------------------------
(* Controller actions *)

\* handleMqttConnection, from the transition to its first await
HandleMqttConnection ==
    IF Len(locations) > 0
    THEN Effects(tasks,
                 PublishLocations([MqttTask EXCEPT !.n = Len(locations)], 1, Ctx0,
                                  republishCount, TRUE))
    ELSE Effects(tasks, [done |-> FALSE, t |-> GetLocationsTask, c |-> Ctx0])

\* utils.event 'mqtt_state' with state s, through mqttConnected$ and
\* distinctUntilChanged to the subscriber
MqttState(s) ==
    /\ NoMicrotask
    /\ mqttConnected' = (s = "connected")
    /\ IF mqttConnected' /\ ~mqttConnected
       THEN HandleMqttConnection
       ELSE /\ UNCHANGED <<tasks, isSubscribed, isConnected>>
            /\ pubCalls' = {}
            /\ offCalls' = {}
            /\ logged' = {}
    /\ UNCHANGED <<locations, devices, republishCount, config, wsValue, started>>
    /\ UNCHANGED nonCtrlVars

\* initRingData: utils.sleep(2) is over and client.getLocations() resolves
\* (nothing is read or written between the two awaits); the first location
\* is processed up to getLocationDevices
GetLocationsDone(t) ==
    /\ t \in TaskSet /\ t.pc = "getLocations"
    /\ NoMicrotask
    /\ DiscoveryStep(t, 1, Discover(t, 1, 0, locations, devices))
    /\ UNCHANGED devices
    /\ UNCHANGED nonCtrlVars

\* getLocationDevices resolves; processDevices runs up to the first
\* mapDevice.  For a location with hubs the device list arrives over its
\* websocket, and that one message resolves the getDevices() of every
\* discovery run waiting for it; the request of getCameraEvents, made when
\* there are cameras, is answered to each run on its own.
Waiting(t) ==
    IF hasHubs[t.loc] /\ ~enableCameras THEN CopiesIn(t, tasks) ELSE 1

GetDevicesDone(t) ==
    /\ t \in TaskSet /\ t.pc = "getDevices"
    /\ NoMicrotask
    /\ hasHubs[t.loc] => wsValue[t.loc]
    /\ DiscoveryStep(t, Waiting(t), Discover(t, t.loc, 1, locations, devices))
    /\ UNCHANGED devices
    /\ UNCHANGED nonCtrlVars

\* DeviceMapper.mapDevice resolves: the wrapper is added to the registry and
\* the for loop goes on
ProcessDevices(t) ==
    LET devs == Append(devices, Wrapper(AllDevices(t.loc)[t.dev], t.loc))
    IN  /\ devices' = devs
        /\ DiscoveryStep(t, 1, Discover(t, t.loc, t.dev + 1, locations, devs))

MapDeviceDone(t) ==
    /\ t \in TaskSet /\ t.pc = "mapDevice"
    /\ ProcessDevices(t)
    /\ UNCHANGED nonCtrlVars

\* go2rtc.init(cameras), if it was called, and utils.sleep(3) are over and
\* initRingData returns (nothing is read or written between these awaits);
\* handleMqttConnection calls publishLocations
InitRingDataReturned(t) ==
    /\ t \in TaskSet /\ t.pc = "initTail"
    /\ NoMicrotask
    /\ Effects(Take(tasks, t),
               PublishLocations([t EXCEPT !.n = Len(locations)], 1, Ctx0,
                                republishCount, mqttConnected))
    /\ UNCHANGED <<mqttConnected, locations, devices, republishCount, config, wsValue,
                   started>>
    /\ UNCHANGED nonCtrlVars

\* the location a republish loop works on
LoopLocation(t) == IF t.kind = "ws" THEN t.loc ELSE locations[t.loc]

\* publishDevices: utils.sleep(30) is over, the counter is decremented and
\* the while condition is evaluated again.  When the loop ends, the caller
\* resumes in the same turn of the event loop: publishLocations goes on with
\* the next location, the websocket subscriber ends.
PublishDevices(t) ==
    LET cnt == republishCount - 1
        l == LoopLocation(t)
    IN  /\ republishCount' = cnt
        /\ Effects(Take(tasks, t),
                   IF LoopCond(cnt, mqttConnected)
                   THEN [done |-> FALSE, t |-> t, c |-> [Ctx0 EXCEPT !.pub = {l}]]
                   ELSE IF t.kind = "ws"
                   THEN [done |-> TRUE, t |-> t, c |-> Ctx0]
                   ELSE PublishLocations(t, t.loc + 1, Ctx0, cnt, mqttConnected))

LoopSleepDone(t) ==
    /\ t \in TaskSet /\ t.pc = "loop"
    /\ NoMicrotask
    /\ PublishDevices(t)
    /\ UNCHANGED <<mqttConnected, locations, devices, config, wsValue, started>>
    /\ UNCHANGED nonCtrlVars

HandleHomeAssistantRestart_AlwaysResend ==
    /\ NumTasks < MaxTasks
    /\ tasks' = Put(tasks, HaTask)
    /\ republishCount' = IF republishCount > 0 THEN RepublishDefault ELSE republishCount
    /\ logged' = {LogResend}

\* handleHomeAssistantRestart, up to its first await
HandleHomeAssistantRestart ==
    IF republishCount > 0
    THEN /\ republishCount' = RepublishDefault
         /\ UNCHANGED tasks
         /\ logged' = {LogDuringCycle}
    ELSE /\ NumTasks < MaxTasks
         /\ tasks' = Put(tasks, HaTask)
         /\ UNCHANGED republishCount
         /\ logged' = {LogResend}

\* utils.event 'ha_status' with the given message
HaStatus(message) ==
    /\ NoMicrotask
    /\ IF message = "online"
       THEN HandleHomeAssistantRestart
       ELSE /\ UNCHANGED <<republishCount, tasks>>
            /\ logged' = {}
    /\ pubCalls' = {}
    /\ offCalls' = {}
    /\ UNCHANGED <<mqttConnected, locations, devices, isSubscribed, isConnected, config,
                   wsValue, started>>
    /\ UNCHANGED nonCtrlVars

\* handleHomeAssistantRestart after utils.sleep(15)
HaSleepDone(t) ==
    /\ t \in TaskSet /\ t.pc = "sleep15"
    /\ NoMicrotask
    /\ republishCount' = RepublishDefault
    /\ Effects(Take(tasks, t),
               PublishLocations([t EXCEPT !.n = Len(locations)], 1, Ctx0,
                                RepublishDefault, mqttConnected))
    /\ UNCHANGED <<mqttConnected, locations, devices, config, wsValue, started>>
    /\ UNCHANGED nonCtrlVars

\* the websocket of location l changes its connected state; a subscribed
\* controller is notified
WsChange(l) ==
    /\ NoMicrotask
    /\ hasHubs[l] /\ KnownLocation(locations, l)
    /\ wsValue' = [wsValue EXCEPT ![l] = ~wsValue[l]]
    /\ Effects(tasks,
               [done |-> TRUE, t |-> NoTask,
                c |-> IF isSubscribed[l]
                      THEN OnConnected(l, ~wsValue[l], Ctx0, republishCount, mqttConnected)
                      ELSE Ctx0])
    /\ UNCHANGED <<mqttConnected, locations, devices, republishCount, config, started>>
    /\ UNCHANGED nonCtrlVars

HandleLocationDisconnect_AllDevices(l) ==
    {i \in 1..Len(devices) : devices[i].locationId = l}

\* handleLocationDisconnect: the wrappers offline() is invoked on
HandleLocationDisconnect(l) ==
    {i \in 1..Len(devices) : devices[i].locationId = l /\ ~devices[i].camera}

\* the subscriber of location.onConnected after utils.sleep(30)
GraceSleepDone(t) ==
    /\ t \in TaskSet /\ t.pc = "grace"
    /\ NoMicrotask
    /\ tasks' = Take(tasks, t)
    /\ IF ~wsValue[t.loc]
       THEN /\ isConnected' = [isConnected EXCEPT ![t.loc] = FALSE]
            /\ offCalls' = HandleLocationDisconnect(t.loc)
       ELSE /\ UNCHANGED isConnected
            /\ offCalls' = {}
    /\ pubCalls' = {}
    /\ logged' = {}
    /\ UNCHANGED <<mqttConnected, locations, devices, republishCount, isSubscribed,
                   config, wsValue, started>>
    /\ UNCHANGED nonCtrlVars

----------------------------------------------------------------------------
(* Vendor session and state store.  A token is a tuple: Empty is the empty *)
(* string, Undefined is undefined, the others are refresh tokens.          *)

Empty == <<>>
Undefined == <<"undefined">>
SavedToken == <<"saved">>
GeneratedToken == <<"generated">>
Rotated(i) == <<"rotated", i>>

\* JavaScript truthiness of a token value
Truthy(tok) == tok # Empty /\ tok # Undefined

\* State.updateToken(newRefreshToken, oldRefreshToken); writeOk tells whether
\* writeFileAtomic succeeds.  The result is [ring |-> state.data.ring_token,
\* file |-> the ring_token in the state file].
UpdateToken(newRefreshToken, oldRefreshToken, writeOk) ==
    IF Truthy(oldRefreshToken)
    THEN [ring |-> newRefreshToken,
          file |-> IF writeOk THEN newRefreshToken ELSE fileToken]
    ELSE [ring |-> ringToken, file |-> fileToken]

\* the subscriber of client.onRefreshTokenUpdated set up by
\* setupTokenUpdates: the result is [refresh |-> this.refreshToken,
\* ring, file]
SetupTokenUpdates(newRefreshToken, oldRefreshToken, writeOk) ==
    IF ~Truthy(oldRefreshToken)
    THEN [refresh |-> refreshToken, ring |-> ringToken, file |-> fileToken]
    ELSE LET u == UpdateToken(newRefreshToken, Undefined, writeOk)
         IN  [refresh |-> newRefreshToken, ring |-> u.ring, file |-> u.file]

\* init(state, generatedToken), up to its first await
RingInit(generatedToken) ==
    /\ initPc = "idle"
    /\ refreshToken' = IF Truthy(generatedToken) THEN generatedToken ELSE ringToken
    /\ IF client # "null"
       THEN /\ initPc' = "reestablish"
            /\ constructed' = FALSE
            /\ UNCHANGED client
       ELSE /\ initPc' = "connect"
            /\ constructed' = TRUE
            /\ client' = "api"
    /\ initReturn' = "pending"
    /\ restToken' = refreshToken'
    /\ authPromise' = FALSE
    /\ knownGood' = IF Truthy(generatedToken) THEN generatedToken ELSE ringToken
    /\ tick' = "none"
    /\ UNCHANGED <<subscribed, ringToken, fileToken, issued, lastRotated>>
    /\ UNCHANGED nonTokenVars

\* a failed attempt drops the client, whichever path made it
RingInitDone_DropClient(ok) ==
    /\ initPc # "idle"
    /\ initPc' = "idle"
    /\ authPromise' = ok
    /\ constructed' = FALSE
    /\ initReturn' = IF ok THEN "client" ELSE "false"
    /\ client' = IF ok THEN client ELSE "null"
    /\ subscribed' = (subscribed \/ (initPc = "connect" /\ ok))
    /\ tick' = "none"
    /\ UNCHANGED <<refreshToken, restToken, ringToken, fileToken, issued, lastRotated,
                   knownGood>>
    /\ UNCHANGED nonTokenVars

\* init / reestablishConnection after utils.sleep(2) and client.getProfile();
\* ok tells whether getProfile succeeded
RingInitDone(ok) ==
    /\ initPc # "idle"
    /\ initPc' = "idle"
    /\ authPromise' = ok
    /\ constructed' = FALSE
    /\ initReturn' = IF ok THEN "client" ELSE "false"
    /\ IF initPc = "connect"
       THEN IF ok
            THEN /\ subscribed' = TRUE
                 /\ UNCHANGED client
            ELSE /\ client' = "null"
                 /\ UNCHANGED subscribed
       ELSE UNCHANGED <<client, subscribed>>
    /\ tick' = "none"
    /\ UNCHANGED <<refreshToken, restToken, ringToken, fileToken, issued, lastRotated,
                   knownGood>>
    /\ UNCHANGED nonTokenVars

\* the vendor rotates the refresh token of the client and notifies
\* onRefreshTokenUpdated with the new and the previous token
TokenRotated(writeOk) ==
    LET newRefreshToken == Rotated(issued + 1)
        oldRefreshToken == restToken
        r == SetupTokenUpdates(newRefreshToken, oldRefreshToken, writeOk)
    IN  /\ client = "api"
        /\ issued < MaxRotations
        /\ issued' = issued + 1
        /\ restToken' = newRefreshToken
        /\ IF subscribed
           THEN /\ refreshToken' = r.refresh
                /\ ringToken' = r.ring
                /\ fileToken' = r.file
                /\ lastRotated' = IF Truthy(oldRefreshToken) THEN newRefreshToken
                                  ELSE lastRotated
                /\ knownGood' = IF Truthy(oldRefreshToken) THEN newRefreshToken
                                ELSE knownGood
           ELSE UNCHANGED <<refreshToken, ringToken, fileToken, lastRotated, knownGood>>
        /\ tick' = "none"
        /\ constructed' = FALSE
        /\ initReturn' = "none"
        /\ UNCHANGED <<client, subscribed, authPromise, initPc>>
        /\ UNCHANGED nonTokenVars

\* a vendor-side outage leaves the client without a refresh token
TokenLost ==
    /\ client = "api"
    /\ Truthy(restToken)
    /\ restToken' = Empty
    /\ tick' = "none"
    /\ constructed' = FALSE
    /\ initReturn' = "none"
    /\ UNCHANGED <<client, subscribed, refreshToken, authPromise, ringToken, fileToken,
                   initPc, issued, lastRotated, knownGood>>
    /\ UNCHANGED nonTokenVars

RefreshTokenCheck_FromStore ==
    /\ IF client # "null" /\ ~Truthy(restToken)
       THEN /\ restToken' = ringToken
            /\ authPromise' = FALSE
            /\ tick' = "reinject"
       ELSE /\ UNCHANGED <<restToken, authPromise>>
            /\ tick' = "skip"
    /\ constructed' = FALSE
    /\ initReturn' = "none"
    /\ UNCHANGED <<client, subscribed, refreshToken, ringToken, fileToken, initPc,
                   issued, lastRotated, knownGood>>
    /\ UNCHANGED nonTokenVars

\* the setInterval callback of setupRefreshTokenCheck
RefreshTokenCheck ==
    /\ IF client # "null" /\ ~Truthy(restToken)
       THEN /\ restToken' = refreshToken
            /\ authPromise' = FALSE
            /\ tick' = "reinject"
       ELSE /\ UNCHANGED <<restToken, authPromise>>
            /\ tick' = "skip"
    /\ constructed' = FALSE
    /\ initReturn' = "none"
    /\ UNCHANGED <<client, subscribed, refreshToken, ringToken, fileToken, initPc,
                   issued, lastRotated, knownGood>>
    /\ UNCHANGED nonTokenVars

----------------------------------------------------------------------------
(* JavaScript strings.  A string is a sequence of characters, so that       *)
(* toLowerCase and the conversion to a number work on what the string      *)
(* holds.                                                                  *)

UpperCase == <<"C", "F", "K", "L", "N", "O", "U">>
LowerCase == <<"c", "f", "k", "l", "n", "o", "u">>

LowerChar(ch) ==
    IF \E i \in 1..Len(UpperCase) : UpperCase[i] = ch
    THEN LowerCase[CHOOSE i \in 1..Len(UpperCase) : UpperCase[i] = ch]
    ELSE ch

\* String.prototype.toLowerCase
ToLowerCase(str) == [i \in 1..Len(str) |-> LowerChar(str[i])]

WhiteSpace == {" "}

RECURSIVE TrimStart(_)
TrimStart(str) ==
    IF str # <<>> /\ Head(str) \in WhiteSpace THEN TrimStart(Tail(str)) ELSE str

RECURSIVE TrimEnd(_)
TrimEnd(str) ==
    IF str # <<>> /\ str[Len(str)] \in WhiteSpace
    THEN TrimEnd(SubSeq(str, 1, Len(str) - 1))
    ELSE str

Trim(str) == TrimEnd(TrimStart(str))

Digits == <<"0", "1", "2", "3", "4", "5", "6", "7", "8", "9">>

IsDigit(ch) == \E i \in 1..Len(Digits) : Digits[i] = ch

DigitValue(ch) == (CHOOSE i \in 1..Len(Digits) : Digits[i] = ch) - 1

IsDigits(str) == str # <<>> /\ \A i \in 1..Len(str) : IsDigit(str[i])

RECURSIVE DecimalValue(_)
DecimalValue(str) ==
    IF str = <<>> THEN 0
    ELSE 10 * DecimalValue(SubSeq(str, 1, Len(str) - 1)) + DigitValue(str[Len(str)])

\* a number: NaN, or an integer value
NaN == [nan |-> TRUE, val |-> 0]
Num(v) == [nan |-> FALSE, val |-> v]

\* the conversion of a string to a number (ToNumber), for strings of digits,
\* signs, white space and letters other than the ones of Infinity and of
\* the exponent and radix notations: white space is trimmed, the empty
\* string is 0, a decimal literal is its value, anything else is NaN
StringToNumber(str) ==
    LET t == Trim(str) IN
    IF t = <<>> THEN Num(0)
    ELSE IF IsDigits(t) THEN Num(DecimalValue(t))
    ELSE IF Head(t) = "-" /\ IsDigits(Tail(t)) THEN Num(0 - DecimalValue(Tail(t)))
    ELSE IF Head(t) = "+" /\ IsDigits(Tail(t)) THEN Num(DecimalValue(Tail(t)))
    ELSE NaN

\* isNaN(value) of a string
IsNaN(str) == StringToNumber(str).nan

\* str >= n and str <= n of a string and a number: false for NaN
StrGeq(str, n) == ~StringToNumber(str).nan /\ StringToNumber(str).val >= n
StrLeq(str, n) == ~StringToNumber(str).nan /\ StringToNumber(str).val <= n

----------------------------------------------------------------------------
(* The intercom wrapper: class Lock of src/devices/intercom.js.  A timer   *)
(* is [entity, id]; a message is [topic, payload].                         *)

LockTimer(id) == [entity |-> "lock", id |-> id]
DingTimer(id) == [entity |-> "ding", id |-> id]

\* the handle setTimeout returns: an id no live timer has
NewTimerId(live) == CHOOSE id \in 1..(Cardinality(live) + 1) : \A tm \in live : tm.id # id

\* publishDingState(isPublish): [sent, published]
PublishDingState(state, published, isPublish) ==
    IF state # published \/ isPublish
    THEN [sent |-> <<[topic |-> "ding", payload |-> state]>>, published |-> state]
    ELSE [sent |-> <<>>, published |-> published]

PublishLockState_NoCache(state, published, isPublish) ==
    IF state # published \/ isPublish
    THEN [sent |-> <<[topic |-> "lock", payload |-> state]>>, published |-> published]
    ELSE [sent |-> <<>>, published |-> published]

\* publishLockState(isPublish): [sent, published]
PublishLockState(state, published, isPublish) ==
    IF state # published \/ isPublish
    THEN [sent |-> <<[topic |-> "lock", payload |-> state]>>, published |-> state]
    ELSE [sent |-> <<>>, published |-> published]

\* publishAttributes: the info topic
PublishAttributes == <<[topic |-> "info", payload |-> "attributes"]>>

\* publishState(data); forced is data === undefined
PublishState(forced) ==
    LET d == PublishDingState(dingState, dingPublished, forced)
        l == PublishLockState(lockState, lockPublished, forced)
    IN  /\ sent' = d.sent \o l.sent \o (IF forced THEN PublishAttributes ELSE <<>>)
        /\ dingPublished' = d.published
        /\ lockPublished' = l.published
        /\ lockOp' = "publishState"
        /\ unlockCalls' = 0
        /\ UNCHANGED <<lockState, unlockTimeout, dingState, dingTimeout, timers,
                       unlocking, unhandled>>
        /\ UNCHANGED nonLockVars

ProcessDing_AlwaysPublish ==
    LET live == IF dingTimeout # 0 THEN timers \ {DingTimer(dingTimeout)} ELSE timers
        id == NewTimerId(live)
        d == PublishDingState("ON", dingPublished, TRUE)
    IN  /\ dingState' = "ON"
        /\ sent' = d.sent
        /\ dingPublished' = d.published
        /\ dingTimeout' = id
        /\ timers' = live \cup {DingTimer(id)}

\* processDing
ProcessDing ==
    LET live == IF dingTimeout # 0 THEN timers \ {DingTimer(dingTimeout)} ELSE timers
        id == NewTimerId(live)
        d == PublishDingState("ON", dingPublished, FALSE)
    IN  /\ dingState' = "ON"
        /\ sent' = d.sent
        /\ dingPublished' = d.published
        /\ dingTimeout' = id
        /\ timers' = live \cup {DingTimer(id)}

SetDoorUnlocked_NoClear ==
    LET live == timers
        id == NewTimerId(live)
        l == PublishLockState("UNLOCKED", lockPublished, FALSE)
    IN  /\ lockState' = "UNLOCKED"
        /\ sent' = l.sent
        /\ lockPublished' = l.published
        /\ unlockTimeout' = id
        /\ timers' = live \cup {LockTimer(id)}

\* setDoorUnlocked
SetDoorUnlocked ==
    LET live == IF unlockTimeout # 0 THEN timers \ {LockTimer(unlockTimeout)} ELSE timers
        id == NewTimerId(live)
        l == PublishLockState("UNLOCKED", lockPublished, FALSE)
    IN  /\ lockState' = "UNLOCKED"
        /\ sent' = l.sent
        /\ lockPublished' = l.published
        /\ unlockTimeout' = id
        /\ timers' = live \cup {LockTimer(id)}

\* this.device.onUnlocked emits
DeviceUnlocked ==
    /\ SetDoorUnlocked
    /\ lockOp' = "unlocked"
    /\ unlockCalls' = 0
    /\ UNCHANGED <<dingState, dingPublished, dingTimeout, unlocking, unhandled>>
    /\ UNCHANGED nonLockVars

\* this.device.onDing emits
DeviceDing ==
    /\ ProcessDing
    /\ lockOp' = "ding"
    /\ unlockCalls' = 0
    /\ UNCHANGED <<lockState, lockPublished, unlockTimeout, unlocking, unhandled>>
    /\ UNCHANGED nonLockVars

UnlockTimeoutExpired_NoPublish(tm) ==
    /\ tm \in timers /\ tm.entity = "lock"
    /\ timers' = timers \ {tm}
    /\ lockState' = "LOCKED"
    /\ sent' = <<>>
    /\ UNCHANGED lockPublished
    /\ unlockTimeout' = 0
    /\ lockOp' = "unlockExpired"
    /\ unlockCalls' = 0
    /\ UNCHANGED <<dingState, dingPublished, dingTimeout, unlocking, unhandled>>
    /\ UNCHANGED nonLockVars

\* the callback of the timer armed by setDoorUnlocked runs
UnlockTimeoutExpired(tm) ==
    LET l == PublishLockState("LOCKED", lockPublished, FALSE)
    IN  /\ tm \in timers /\ tm.entity = "lock"
        /\ timers' = timers \ {tm}
        /\ lockState' = "LOCKED"
        /\ sent' = l.sent
        /\ lockPublished' = l.published
        /\ unlockTimeout' = 0
        /\ lockOp' = "unlockExpired"
        /\ unlockCalls' = 0
        /\ UNCHANGED <<dingState, dingPublished, dingTimeout, unlocking, unhandled>>
        /\ UNCHANGED nonLockVars

DingTimeoutExpired_NoPublish(tm) ==
    /\ tm \in timers /\ tm.entity = "ding"
    /\ timers' = timers \ {tm}
    /\ dingState' = "OFF"
    /\ sent' = <<>>
    /\ UNCHANGED dingPublished
    /\ dingTimeout' = 0
    /\ lockOp' = "dingExpired"
    /\ unlockCalls' = 0
    /\ UNCHANGED <<lockState, lockPublished, unlockTimeout, unlocking, unhandled>>
    /\ UNCHANGED nonLockVars

\* the callback of the timer armed by processDing runs
DingTimeoutExpired(tm) ==
    LET d == PublishDingState("OFF", dingPublished, FALSE)
    IN  /\ tm \in timers /\ tm.entity = "ding"
        /\ timers' = timers \ {tm}
        /\ dingState' = "OFF"
        /\ sent' = d.sent
        /\ dingPublished' = d.published
        /\ dingTimeout' = 0
        /\ lockOp' = "dingExpired"
        /\ unlockCalls' = 0
        /\ UNCHANGED <<lockState, lockPublished, unlockTimeout, unlocking, unhandled>>
        /\ UNCHANGED nonLockVars

StrLock == <<"l", "o", "c", "k">>
StrUnlock == <<"u", "n", "l", "o", "c", "k">>

\* setLockState(message), up to its first await
SetLockState(message) ==
    LET command == ToLowerCase(message)
    IN  IF command = StrLock
        THEN \* `this.data.lock.state === 'LOCKED'` compares and assigns nothing
             LET l == IF lockState = "UNLOCKED"
                      THEN PublishLockState(lockState, lockPublished, FALSE)
                      ELSE [sent |-> <<>>, published |-> lockPublished]
             IN  /\ sent' = l.sent
                 /\ lockPublished' = l.published
                 /\ unlockCalls' = 0
                 /\ UNCHANGED <<lockState, unlocking>>
        ELSE IF command = StrUnlock
        THEN /\ unlocking < MaxPending
             /\ unlocking' = unlocking + 1
             /\ unlockCalls' = 1
             /\ sent' = <<>>
             /\ UNCHANGED <<lockState, lockPublished>>
        ELSE /\ sent' = <<>>
             /\ unlockCalls' = 0
             /\ UNCHANGED <<lockState, lockPublished, unlocking>>

\* processCommand(command, message)
ProcessCommand(command, message) ==
    /\ IF command = "lock/command"
       THEN SetLockState(message)
       ELSE /\ sent' = <<>>
            /\ unlockCalls' = 0
            /\ UNCHANGED <<lockState, lockPublished, unlocking>>
    /\ lockOp' = "command"
    /\ UNCHANGED <<unlockTimeout, dingState, dingPublished, dingTimeout, timers, unhandled>>
    /\ UNCHANGED nonLockVars

UnlockDone_ApplyAnyway(ok) ==
    /\ unlocking > 0
    /\ unlocking' = unlocking - 1
    /\ SetDoorUnlocked
    /\ lockOp' = IF ok THEN "unlockOk" ELSE "unlockFailed"
    /\ unhandled' = (unhandled \/ ~ok)
    /\ unlockCalls' = 0
    /\ UNCHANGED <<dingState, dingPublished, dingTimeout>>
    /\ UNCHANGED nonLockVars

\* setLockState after `await this.device.unlock()`; ok tells whether the
\* vendor call succeeded
UnlockDone(ok) ==
    /\ unlocking > 0
    /\ unlocking' = unlocking - 1
    /\ IF ok
       THEN /\ SetDoorUnlocked
            /\ lockOp' = "unlockOk"
       ELSE /\ sent' = <<>>
            /\ lockOp' = "unlockFailed"
            /\ UNCHANGED <<lockState, lockPublished, unlockTimeout, timers>>
    /\ unlockCalls' = 0
    /\ UNCHANGED <<dingState, dingPublished, dingTimeout, unhandled>>
    /\ UNCHANGED nonLockVars

LockInit ==
    /\ lockState = "LOCKED"
    /\ lockPublished = "null"
    /\ unlockTimeout = 0
    /\ dingState = "OFF"
    /\ dingPublished = "null"
    /\ dingTimeout = 0
    /\ timers = {}
    /\ unlocking = 0
    /\ sent = <<>>
    /\ unlockCalls = 0
    /\ unhandled = FALSE
    /\ lockOp = "none"

----------------------------------------------------------------------------
(* Beam wrapper (src/devices/beam.js): commands from MQTT *)

StrOn == <<"o", "n">>
StrOff == <<"o", "f", "f">>

\* this.device.location.setLightGroup(groupId, lightOn, lightDuration)
SetLightGroupCall(gid, lightOn) ==
    [call |-> "setLightGroup", groupId |-> gid, lightOn |-> lightOn]

\* this.device.sendCommand('light-mode.set', data)
SendCommandCall(lightOn) ==
    [call |-> "sendCommand", lightMode |-> IF lightOn THEN "on" ELSE "default"]

\* this.device.setInfo({ device: { v1: { level: level / 100 } } }); the
\* level is the quotient num / den
SetInfoCall(message) ==
    [call |-> "setInfo", level |-> [num |-> StringToNumber(message).val, den |-> 100]]

\* setSwitchState(message): the calls it makes on this.device
SetSwitchState(message) ==
    LET command == ToLowerCase(message) IN
    IF command = StrOn \/ command = StrOff
    THEN LET lightOn == (command = StrOn) IN
         IF isLightGroup /\ Truthy(groupId)
         THEN <<SetLightGroupCall(groupId, lightOn)>>
         ELSE <<SendCommandCall(lightOn)>>
    ELSE <<>>

\* setSwitchLevel(message): the calls it makes on this.device
SetSwitchLevel(message) ==
    IF IsNaN(message) THEN <<>>
    ELSE IF ~(StrGeq(message, 0) /\ StrLeq(message, 100)) THEN <<>>
    ELSE <<SetInfoCall(message)>>

\* processCommand(message, cmdTopicLevel) for the command delivered
BeamProcessCommand ==
    /\ beamPc = "received"
    /\ vendorCalls' =
           IF beamCommand.cmdTopicLevel = "switch_command"
           THEN SetSwitchState(beamCommand.message)
           ELSE IF beamCommand.cmdTopicLevel = "brightness_command"
           THEN SetSwitchLevel(beamCommand.message)
           ELSE <<>>
    /\ beamPc' = "done"
    /\ UNCHANGED <<isLightGroup, groupId, beamCommand>>
    /\ UNCHANGED nonBeamVars

\* the wrapper with no command delivered
BeamIdle ==
    /\ isLightGroup = FALSE
    /\ groupId = Undefined
    /\ beamCommand = [message |-> <<>>, cmdTopicLevel |-> ""]
    /\ beamPc = "idle"
    /\ vendorCalls = <<>>

----------------------------------------------------------------------------
(* Media supervisor (src/lib/mediamtx.js).  The application calls          *)
(* init(cameras) once and shutdown() at most once; a child process exits   *)
(* by crashing or by being killed, and its 'close' handler then runs.      *)

\* config.paths of init(cameras): two entries per camera
ConfigPaths(cameras) ==
    {<<cameras[i], kind>> : i \in 1..Len(cameras), kind \in {"live", "event"}}

\* the configuration file: none, or one with the given paths
NoFile == [exists |-> FALSE, paths |-> {}]
FileWith(paths) == [exists |-> TRUE, paths |-> paths]

\* a 'close' handler of child process p suspended at sleep pc
CloseTask(p, pc) == [pid |-> p, pc |-> pc]

\* process.kill(): what it does to the running processes and to the
\* 'close' handlers; killing a process that has exited has no effect
KillRunning(p, procs) == procs \ {p}
KillTasks(p, procs, handlers) ==
    IF p \in procs THEN handlers \cup {CloseTask(p, "sleep1")} ELSE handlers

\* init() called again by the application while the supervisor is started
MtxInit_NoStartedCheck ==
    /\ mtxInitPc \in {"idle", "done"}
    /\ spawned < MaxSpawns
    /\ ~shutdownCalled
    /\ mtxStarted' = "true"
    /\ mtxInitPc' = "write"
    /\ mtxOp' = "init"
    /\ UNCHANGED <<mediamtxProcess, running, spawned, configWrite>>
    /\ UNCHANGED <<closeTasks, mtxCameras, configFile, shutdownCalled>>
    /\ UNCHANGED nonMtxVars

\* init(cameras), lines 18-85: up to the await of writeFileAtomic, or up to
\* the spawn when no cameras are given
MtxInit ==
    /\ mtxInitPc = "idle"
    /\ ~shutdownCalled
    /\ mtxStarted' = "true"
    /\ IF mtxCameras # Undefined
       THEN /\ mtxInitPc' = "write"
            /\ mtxOp' = "init"
            /\ UNCHANGED <<mediamtxProcess, running, spawned, configWrite>>
       ELSE /\ mtxInitPc' = "done"
            /\ mediamtxProcess' = spawned + 1
            /\ running' = running \cup {spawned + 1}
            /\ spawned' = spawned + 1
            /\ configWrite' = "none"
            /\ mtxOp' = "start"
    /\ UNCHANGED <<closeTasks, mtxCameras, configFile, shutdownCalled>>
    /\ UNCHANGED nonMtxVars

\* init(cameras), lines 78-91: writeFileAtomic has settled; ok tells whether
\* it succeeded; the child process is spawned either way
MtxWriteDone(ok) ==
    /\ mtxInitPc = "write"
    /\ spawned < MaxSpawns
    /\ configFile' = IF ok THEN FileWith(ConfigPaths(mtxCameras)) ELSE configFile
    /\ configWrite' = IF ok THEN "written" ELSE "failed"
    /\ mediamtxProcess' = spawned + 1
    /\ running' = running \cup {spawned + 1}
    /\ spawned' = spawned + 1
    /\ mtxInitPc' = "done"
    /\ mtxOp' = "start"
    /\ UNCHANGED <<mtxStarted, closeTasks, mtxCameras, shutdownCalled>>
    /\ UNCHANGED nonMtxVars

\* child process p crashes: its 'close' handler starts and suspends at
\* sleep(1)
MtxProcessExit(p) ==
    /\ p \in running
    /\ spawned < MaxSpawns
    /\ running' = running \ {p}
    /\ closeTasks' = closeTasks \cup {CloseTask(p, "sleep1")}
    /\ mtxOp' = "exit"
    /\ UNCHANGED <<mtxStarted, mediamtxProcess, spawned, mtxInitPc, mtxCameras,
                   configFile, configWrite, shutdownCalled>>
    /\ UNCHANGED nonMtxVars

\* restart after the first crash only
MtxCloseSleep1Done_RetryLimit(t) ==
    /\ t \in closeTasks
    /\ t.pc = "sleep1"
    /\ IF mtxStarted # "shutdown" /\ spawned < 2
       THEN /\ closeTasks' = (closeTasks \ {t}) \cup {CloseTask(t.pid, "sleep5")}
            /\ mtxOp' = "delay"
       ELSE /\ closeTasks' = closeTasks \ {t}
            /\ mtxOp' = "skip"
    /\ UNCHANGED <<mtxStarted, mediamtxProcess, running, spawned, mtxInitPc,
                   mtxCameras, configFile, configWrite, shutdownCalled>>
    /\ UNCHANGED nonMtxVars

\* 'close' handler, lines 100-104: sleep(1) is over; unless shutdown is
\* marked, this.mediamtxProcess is force-killed (a TypeError when it is
\* false) and the handler suspends at sleep(5)
MtxCloseSleep1Done(t) ==
    /\ t \in closeTasks
    /\ t.pc = "sleep1"
    /\ IF mtxStarted # "shutdown"
       THEN IF mediamtxProcess = 0
            THEN /\ closeTasks' = closeTasks \ {t}
                 /\ mtxOp' = "error"
                 /\ UNCHANGED running
            ELSE /\ running' = KillRunning(mediamtxProcess, running)
                 /\ closeTasks' =
                        (KillTasks(mediamtxProcess, running, closeTasks) \ {t})
                            \cup {CloseTask(t.pid, "sleep5")}
                 /\ mtxOp' = "delay"
       ELSE /\ closeTasks' = closeTasks \ {t}
            /\ mtxOp' = "skip"
            /\ UNCHANGED running
    /\ UNCHANGED <<mtxStarted, mediamtxProcess, spawned, mtxInitPc, mtxCameras,
                   configFile, configWrite, shutdownCalled>>
    /\ UNCHANGED nonMtxVars

\* 'close' handler, lines 104-105: sleep(5) is over and this.init() runs with
\* no cameras: started is set, no configuration is written, a child process
\* is spawned
MtxCloseSleep5Done(t) ==
    /\ t \in closeTasks
    /\ t.pc = "sleep5"
    /\ spawned < MaxSpawns
    /\ closeTasks' = closeTasks \ {t}
    /\ mtxStarted' = "true"
    /\ configWrite' = "none"
    /\ mediamtxProcess' = spawned + 1
    /\ running' = running \cup {spawned + 1}
    /\ spawned' = spawned + 1
    /\ mtxOp' = "restart"
    /\ UNCHANGED <<mtxInitPc, mtxCameras, configFile, shutdownCalled>>
    /\ UNCHANGED nonMtxVars

\* shutdown(), lines 122-129
MtxShutdown ==
    /\ ~shutdownCalled
    /\ shutdownCalled' = TRUE
    /\ mtxStarted' = "shutdown"
    /\ IF mediamtxProcess # 0
       THEN /\ running' = KillRunning(mediamtxProcess, running)
            /\ closeTasks' = KillTasks(mediamtxProcess, running, closeTasks)
            /\ mediamtxProcess' = 0
       ELSE UNCHANGED <<running, closeTasks, mediamtxProcess>>
    /\ mtxOp' = "shutdown"
    /\ UNCHANGED <<spawned, mtxInitPc, mtxCameras, configFile, configWrite>>
    /\ UNCHANGED nonMtxVars

\* the supervisor as constructed, lines 13-16; cameras is what the
\* application will hand to init()
MtxConstructed(cameras) ==
    /\ mtxStarted = "false"
    /\ mediamtxProcess = 0
    /\ running = {}
    /\ closeTasks = {}
    /\ spawned = 0
    /\ mtxInitPc = "idle"
    /\ mtxCameras = cameras
    /\ configFile = NoFile
    /\ configWrite = "none"
    /\ shutdownCalled = FALSE
    /\ mtxOp = "none"

\* the supervisor of an installation without cameras
MtxIdle == MtxConstructed(<<>>)

----------------------------------------------------------------------------
(* State store (State in src/lib/state.js).  The content of the state file *)
(* is [kind]: "missing" (no file), "unparsable" (require() throws),        *)
(* "null" or "number" (a JSON document that is no object), or "object"     *)
(* with props, the function from its own property names to their values.   *)
(* A string is the sequence of its parts, '' is Empty.                     *)

\* this.data of the constructor, lines 10-14
DefaultData ==
    [kind |-> "object",
     props |-> [ring_token |-> Empty, systemId |-> Empty, devices |-> <<>>]]

\* new State(), lines 8-15, beside a state file with the given content
StateConstructed(file) ==
    store = [file |-> file, path |-> "unset", valid |-> FALSE, data |-> DefaultData,
             pc |-> "new"]

\* loadStateData, lines 25-41; hex is the digest line 32 would produce.
\* pc "threw": the promise is rejected.  `catch {` binds no error, so
\* `err.message` in the handler raises a ReferenceError whenever the try
\* block raised: require() of an unparsable file, hasOwnProperty read on
\* null, the assignment of a property to a number in strict code.
LoadStateData(st, hex) ==
    IF st.file.kind = "missing"
    THEN [st EXCEPT !.pc = "returned"]
    ELSE IF st.file.kind = "unparsable"
    THEN [st EXCEPT !.pc = "threw"]
    ELSE LET read == [st EXCEPT !.data = st.file, !.valid = TRUE]
             props == st.file.props
         IN  IF st.file.kind \in {"null", "number"}
             THEN [read EXCEPT !.pc = "threw"]
             ELSE IF "systemId" \in DOMAIN props
             THEN [read EXCEPT !.pc = "returned"]
             ELSE [read EXCEPT
                       !.data.props = [p \in DOMAIN props \cup {"systemId"} |->
                                           IF p = "systemId" THEN hex ELSE props[p]],
                       !.pc = "returned"]

\* init(config), lines 17-23: no await is waited for inside loadStateData,
\* so init runs to its end in one step
StateInit(runMode, hex) ==
    /\ store.pc = "new"
    /\ store' = LoadStateData(
                    [store EXCEPT !.path = IF runMode = "standard"
                                           THEN "main/ring-state.json"
                                           ELSE "/data/ring-state.json"],
                    hex)
    /\ UNCHANGED nonStoreVars

\* the store as constructed, with no state file
StoreIdle == StateConstructed([kind |-> "missing"])

----------------------------------------------------------------------------
(* Device mapper (DeviceMapper in src/lib/state.js).  A device-type string *)
(* is the sequence of its dot-separated segments: 'lock.x' is              *)
(* <<"lock", "x">>, 'locker' is <<"locker">>.  RingDeviceType.X is a       *)
(* constant of the vendor library; it stands for itself, and the constants *)
(* are taken to differ from each other and from the literal keys.  A raw   *)
(* device is [id, deviceType, class, hasParentZid, parentZid, categoryId,  *)
(* hidden], always with a data payload, as the vendor library builds it;   *)
(* devices are named by their position in allDevices.                      *)

RingDeviceType(member) == <<"RingDeviceType", member>>

\* str.startsWith(prefix + '.') for a dotted prefix
StartsWithDotted(str, prefix) ==
    Len(str) > Len(prefix) /\ SubSeq(str, 1, Len(prefix)) = prefix

\* the own properties of `creators`, in the order of the object literal:
\* [key, make]; the property 'lock' is a getter
Creators ==
    <<[key |-> RingDeviceType("SecurityPanel"), make |-> "SecurityPanel"],
      [key |-> RingDeviceType("ContactSensor"), make |-> "createSecurityDevice"],
      [key |-> RingDeviceType("RetrofitZone"), make |-> "createSecurityDevice"],
      [key |-> RingDeviceType("TiltSensor"), make |-> "createSecurityDevice"],
      [key |-> RingDeviceType("GlassbreakSensor"), make |-> "createSecurityDevice"],
      [key |-> RingDeviceType("MotionSensor"), make |-> "createSecurityDevice"],
      [key |-> RingDeviceType("Sensor"), make |-> "createSecurityDevice"],
      [key |-> RingDeviceType("FloodFreezeSensor"), make |-> "FloodFreezeSensor"],
      [key |-> RingDeviceType("SmokeAlarm"), make |-> "SmokeAlarm"],
      [key |-> RingDeviceType("CoAlarm"), make |-> "CoAlarm"],
      [key |-> RingDeviceType("SmokeCoListener"), make |-> "SmokeCoListener"],
      [key |-> RingDeviceType("TemperatureSensor"), make |-> "handleTemperatureSensor"],
      [key |-> RingDeviceType("BeamsMotionSensor"), make |-> "Beam"],
      [key |-> RingDeviceType("BeamsDevice"), make |-> "BeamOutdoorPlug"],
      [key |-> RingDeviceType("BeamsMultiLevelSwitch"), make |-> "Beam"],
      [key |-> RingDeviceType("BeamsTransformerSwitch"), make |-> "Beam"],
      [key |-> RingDeviceType("BeamsLightGroupSwitch"), make |-> "Beam"],
      [key |-> RingDeviceType("Switch"), make |-> "Switch"],
      [key |-> RingDeviceType("MultiLevelSwitch"), make |-> "FanOrMultiLevelSwitch"],
      [key |-> RingDeviceType("Thermostat"), make |-> "Thermostat"],
      [key |-> RingDeviceType("WaterValve"), make |-> "Valve"],
      [key |-> RingDeviceType("BaseStation"), make |-> "BaseStation"],
      [key |-> RingDeviceType("RangeExtender"), make |-> "RangeExtender"],
      [key |-> RingDeviceType("RingNetAdapter"), make |-> "BridgeOrIgnore"],
      [key |-> RingDeviceType("Keypad"), make |-> "Keypad"],
      [key |-> <<"security-remote">>, make |-> "PanicButton"],
      [key |-> <<"lock">>, make |-> "get lock"],
      [key |-> <<"location", "mode">>, make |-> "ModesPanel"],
      [key |-> <<"siren">>, make |-> "Siren"],
      [key |-> <<"siren", "outdoor-strobe">>, make |-> "Siren"],
      [key |-> RingDeviceType("BeamsSwitch"), make |-> "ignore"],
      [key |-> <<"access-code">>, make |-> "ignore"],
      [key |-> <<"access-code", "vault">>, make |-> "ignore"],
      [key |-> <<"adapter", "sidewalk">>, make |-> "ignore"],
      [key |-> <<"adapter", "shadow">>, make |-> "ignore"],
      [key |-> <<"adapter", "zigbee">>, make |-> "ignore"],
      [key |-> <<"adapter", "zwave">>, make |-> "ignore"],
      [key |-> <<"thermostat-operating-status">>, make |-> "ignore"]>>

\* properties that `creators` inherits from Object.prototype: what reading
\* one yields when it is called as a function
ObjectPrototype ==
    <<[key |-> <<"constructor">>, called |-> "object"],
      [key |-> <<"toString">>, called |-> "string"],
      [key |-> <<"__proto__">>, called |-> "TypeError"]>>

\* values of mapDevice and of the property reads
NoInfo ==
    [device |-> 0, hasChildDevices |-> FALSE, childDevices |-> <<>>,
     hasParentDevice |-> FALSE, parentDevice |-> 0,
     securityPanel |-> 0, bypassCapableDevices |-> <<>>]
Value(kind, class) == [kind |-> kind, class |-> class]

\* allDevices.filter(pred): the positions where pred holds, in order
RECURSIVE FilterIndex(_)
FilterIndex(positions) ==
    IF positions = {} THEN <<>>
    ELSE LET i == CHOOSE x \in positions : \A y \in positions : x <= y
         IN  <<i>> \o FilterIndex(positions \ {i})

\* allDevices.find(pred): the first position where pred holds, 0 for
\* undefined
FindIndex(positions) ==
    IF positions = {} THEN 0
    ELSE CHOOSE x \in positions : \A y \in positions : x <= y

BuildDeviceInfo_ChildrenOfAny(k, all) ==
    LET device == all[k]
        IsChild(d) == d.hasParentZid
        IsParent(d) == d.id = device.parentZid
        children == \E i \in 1..Len(all) : all[i].hasParentZid /\ all[i].parentZid = device.id
    IN  [NoInfo EXCEPT
            !.device = k,
            !.hasChildDevices = children,
            !.childDevices = IF children THEN FilterIndex({i \in 1..Len(all) : IsChild(all[i])}) ELSE <<>>,
            !.hasParentDevice = device.hasParentZid,
            !.parentDevice = IF device.hasParentZid THEN FindIndex({i \in 1..Len(all) : IsParent(all[i])}) ELSE 0]

\* buildDeviceInfo(device, allDevices) for the device at position k
BuildDeviceInfo(k, all) ==
    LET device == all[k]
        IsChild(d) == d.hasParentZid /\ d.parentZid = device.id
        IsParent(d) == d.id = device.parentZid
        children == \E i \in 1..Len(all) : all[i].hasParentZid /\ all[i].parentZid = device.id
    IN  [NoInfo EXCEPT
            !.device = k,
            !.hasChildDevices = children,
            !.childDevices = IF children THEN FilterIndex({i \in 1..Len(all) : IsChild(all[i])}) ELSE <<>>,
            !.hasParentDevice = device.hasParentZid,
            !.parentDevice = IF device.hasParentZid THEN FindIndex({i \in 1..Len(all) : IsParent(all[i])}) ELSE 0]

HandleTemperatureSensor_NoParentCheck(info, all) ==
    Value("wrapper", "TemperatureSensor")

\* handleTemperatureSensor(deviceInfo): reading deviceType of a parentDevice
\* that is undefined is a TypeError
HandleTemperatureSensor(info, all) ==
    IF info.hasParentDevice
    THEN IF info.parentDevice = 0 THEN Value("throws", "TypeError")
         ELSE IF all[info.parentDevice].deviceType = RingDeviceType("Thermostat")
         THEN Value("ignore", "")
         ELSE Value("wrapper", "TemperatureSensor")
    ELSE Value("wrapper", "TemperatureSensor")

\* what calling a creator yields: [value, info]
Create(make, device, info, all) ==
    LET IsPanel(d) == d.deviceType = RingDeviceType("SecurityPanel")
        CreateSecurityDevice == [info EXCEPT !.securityPanel = FindIndex({i \in 1..Len(all) : IsPanel(all[i])})]
        bypassableTypes == {RingDeviceType("ContactSensor"), RingDeviceType("RetrofitZone"),
                            RingDeviceType("MotionSensor"), RingDeviceType("TiltSensor"),
                            RingDeviceType("GlassbreakSensor")}
        Bypassable(d) == d.deviceType \in bypassableTypes
        GetBypassCapableDevices == FilterIndex({i \in 1..Len(all) : Bypassable(all[i])})
    IN
    IF make = "SecurityPanel"
    THEN [value |-> Value("wrapper", "SecurityPanel"),
          info |-> [info EXCEPT !.bypassCapableDevices = GetBypassCapableDevices]]
    ELSE IF make = "createSecurityDevice"
    THEN [value |-> Value("wrapper", "BinarySensor"), info |-> CreateSecurityDevice]
    ELSE IF make = "handleTemperatureSensor"
    THEN [value |-> HandleTemperatureSensor(info, all), info |-> info]
    ELSE IF make = "FanOrMultiLevelSwitch"
    THEN [value |-> IF device.categoryId = 17 THEN Value("wrapper", "Fan")
                    ELSE Value("wrapper", "MultiLevelSwitch"),
          info |-> info]
    ELSE IF make = "BridgeOrIgnore"
    THEN [value |-> IF device.hidden THEN Value("ignore", "") ELSE Value("wrapper", "Bridge"), info |-> info]
    ELSE IF make = "get lock"
    THEN [value |-> Value("wrapper", "Lock"), info |-> info]
    ELSE IF make = "ignore"
    THEN [value |-> Value("ignore", ""), info |-> info]
    ELSE [value |-> Value("wrapper", make), info |-> info]

\* mapByDeviceType(device, deviceInfo, allDevices):
\* creators[device.deviceType] || creators.lock, called when truthy
MapByDeviceType(device, info, all) ==
    LET type == device.deviceType
        \* the own property of `creators` named type: the position of the
        \* last entry of the literal with that key, 0 for none
        own == IF \E i \in 1..Len(Creators) : Creators[i].key = type
               THEN CHOOSE i \in 1..Len(Creators) :
                        /\ Creators[i].key = type
                        /\ \A j \in (i + 1)..Len(Creators) : Creators[j].key # type
               ELSE 0
        \* the inherited property named type, 0 for none
        inherited == IF \E i \in 1..Len(ObjectPrototype) : ObjectPrototype[i].key = type
                     THEN CHOOSE i \in 1..Len(ObjectPrototype) : ObjectPrototype[i].key = type
                     ELSE 0
        \* creators.lock: the getter yields a creator for 'lock' and
        \* 'lock.*' types, undefined otherwise
        GetLock == type = <<"lock">> \/ StartsWithDotted(type, <<"lock">>)
    IN  IF own # 0 /\ (Creators[own].make # "get lock" \/ GetLock)
        THEN Create(Creators[own].make, device, info, all)
        ELSE IF own = 0 /\ inherited # 0
        THEN [value |-> IF ObjectPrototype[inherited].called = "TypeError" THEN Value("throws", "TypeError")
                        ELSE Value("other", ObjectPrototype[inherited].called),
              info |-> info]
        ELSE IF GetLock
        THEN Create("get lock", device, info, all)
        ELSE [value |-> Value("not-supported", ""), info |-> info]

\* mapDevice(device, allDevices, events) for the device at position k
MapDevice(k, all) ==
    LET device == all[k]
        info == BuildDeviceInfo(k, all)
    IN  IF device.class = "RingCamera" THEN [value |-> Value("wrapper", "Camera"), info |-> info]
        ELSE IF device.class = "RingChime" THEN [value |-> Value("wrapper", "Chime"), info |-> info]
        ELSE IF device.class = "RingIntercom"
        THEN [value |-> Value("wrapper", "Intercom"), info |-> info]
        ELSE MapByDeviceType(device, info, all)

ProcessMapped_NoIgnoreTest(value) ==
    IF value.kind = "throws" THEN "thrown"
    ELSE IF value.kind = "not-supported" THEN "unsupported"
    ELSE "added"

\* processDevices, lines 286-292: what is done with the mapped device
ProcessMapped(value) ==
    IF value.kind = "throws" THEN "thrown"
    ELSE IF value.kind = "not-supported" THEN "unsupported"
    ELSE IF value.kind # "ignore" THEN "added"
    ELSE "skipped"

\* one turn of the loop of processDevices for a device that is not
\* registered: the last device of allDevices
MapDeviceCall ==
    /\ mapPc = "input"
    /\ LET r == MapDevice(Len(allDevices), allDevices)
       IN  /\ mappedDevice' = r.value
           /\ deviceInfo' = r.info
           /\ processed' = ProcessMapped(r.value)
    /\ mapPc' = "done"
    /\ UNCHANGED allDevices
    /\ UNCHANGED nonMapVars

\* no device list at hand
MapIdle ==
    /\ allDevices = <<>>
    /\ mapPc = "idle"
    /\ deviceInfo = NoInfo
    /\ mappedDevice = Value("none", "")
    /\ processed = "none"

----------------------------------------------------------------------------
(* Topics of the ContactSensor and Beam wrappers (init() of                *)
(* src/devices/contact-sensor.js and src/devices/beam.js).  A string is    *)
(* the sequence of its words, each '/' a word of its own, and '+' is \o.   *)
(* alarmTopic, locationId, deviceId and (for a beam) component are fields  *)
(* the base class sets before init().  Beam.init reads and assigns         *)
(* identifiers it does not declare (availabilityTopic, deviceType): they   *)
(* resolve in the global scope, which belongs to the rest of the process,  *)
(* so whether they exist there is an input.  Publishing, which the base    *)
(* class does, is left out.                                                *)

Slash == <<"/">>

\* a topic a wrapper built: the field it is stored in, what it is for
Topic(name, kind, topic) == [name |-> name, kind |-> kind, topic |-> topic]

\* ContactSensor.init(): the topic fields
ContactSensorInit(w) ==
    LET component == <<"binary_sensor">>
        sensorType == IF w.deviceType = <<"sensor", "zone">> THEN <<"zone">> ELSE <<"contact">>
        deviceTopic == w.alarmTopic \o Slash \o component \o Slash \o w.deviceId
    IN  [threw |-> FALSE,
         topics |->
            {Topic("deviceTopic", "device", deviceTopic),
             Topic("stateTopic", "state", deviceTopic \o Slash \o sensorType \o <<"_state">>),
             Topic("attributesTopic", "attributes", deviceTopic \o Slash \o <<"attributes">>),
             Topic("availabilityTopic", "availability", deviceTopic \o Slash \o <<"status">>),
             Topic("configTopic", "config",
                   <<"homeassistant">> \o Slash \o component \o Slash \o w.locationId
                       \o Slash \o w.deviceId \o Slash \o <<"config">>)}]

\* Beam.init(): the topic fields, up to the first ReferenceError
BeamInitTopics(w) ==
    LET deviceType == w.globalDeviceType
        deviceTopic_motion == w.alarmTopic \o Slash \o <<"binary_sensor">> \o Slash \o w.deviceId
        deviceTopic_light == w.alarmTopic \o Slash \o <<"light">> \o Slash \o w.deviceId
        availability ==
            {Topic("global availabilityTopic", "availability",
                   w.alarmTopic \o Slash \o <<"beam">> \o Slash \o w.deviceId \o Slash \o <<"status">>)}
        motion ==
            IF deviceType # <<"switch", "transformer", "beams">>
            THEN {Topic("deviceTopic_motion", "device", deviceTopic_motion),
                  Topic("stateTopic_motion", "state", deviceTopic_motion \o Slash \o <<"motion_state">>),
                  Topic("attributesTopic_motion", "attributes",
                        deviceTopic_motion \o Slash \o <<"attributes">>),
                  Topic("configTopic_motion", "config",
                        <<"homeassistant">> \o Slash \o <<"binary_sensor">> \o Slash \o w.locationId \o Slash
                            \o w.deviceId \o Slash \o <<"config">>)}
            ELSE {}
        light ==
            IF deviceType # <<"motion-sensor", "beams">>
            THEN {Topic("deviceTopic_light", "device", deviceTopic_light),
                  Topic("stateTopic_light", "state", deviceTopic_light \o <<"switch_state">>),
                  Topic("commandTopic_light", "command",
                        deviceTopic_light \o <<"switch_command">>),
                  Topic("attributesTopic_light", "attributes",
                        deviceTopic_light \o Slash \o <<"attributes">>),
                  Topic("configTopic_light", "config",
                        <<"homeassistant">> \o Slash \o <<"light">> \o Slash \o w.locationId \o Slash
                            \o w.deviceId \o Slash \o <<"config">>)}
            ELSE {}
        brightness ==
            IF deviceType = <<"switch", "multilevel", "beams">>
            THEN {Topic("stateTopic_brightness", "state",
                        deviceTopic_light \o <<"brightness_state">>),
                  Topic("commandTopic_brightness", "command",
                        deviceTopic_light \o <<"brightness_command">>)}
            ELSE {}
        generic ==
            {Topic("configTopic", "config",
                   <<"homeassistant">> \o Slash \o w.component \o Slash \o w.locationId
                       \o Slash \o w.deviceId \o Slash \o <<"config">>)}
    IN  IF ~w.globalAvailabilityTopic
        THEN [threw |-> TRUE, topics |-> {}]
        ELSE IF deviceType = Undefined
        THEN [threw |-> TRUE, topics |-> availability]
        ELSE [threw |-> FALSE,
              topics |-> availability \cup motion \cup light \cup brightness \cup generic]

\* contactSensor.init()
ContactSensorInitCall ==
    /\ wrapper.class = "ContactSensor"
    /\ Len(built) < MaxInits
    /\ built' = Append(built, ContactSensorInit(wrapper))
    /\ UNCHANGED wrapper
    /\ UNCHANGED nonTopicVars

\* beam.init(mqttClient)
BeamInitCall ==
    /\ wrapper.class = "Beam"
    /\ Len(built) < MaxInits
    /\ built' = Append(built, BeamInitTopics(wrapper))
    /\ UNCHANGED wrapper
    /\ UNCHANGED nonTopicVars

\* a wrapper as the base class leaves it, and the global scope: whether it
\* has an availabilityTopic, and its deviceType (Undefined for none).
\* deviceType is device.deviceType, which ContactSensor.init reads (Beam.init
\* reads device.data.deviceType for isLightGroup only: see BeamInit)
NewTopicWrapper(class, alarmTopic, locationId, deviceId, component, deviceType, gAvail, gType) ==
    [class |-> class, alarmTopic |-> alarmTopic, locationId |-> locationId,
     deviceId |-> deviceId, component |-> component, deviceType |-> deviceType,
     globalAvailabilityTopic |-> gAvail, globalDeviceType |-> gType]

\* no wrapper at hand
TopicIdle ==
    /\ wrapper = NewTopicWrapper("none", <<>>, <<>>, <<>>, <<>>, <<>>, FALSE, Undefined)
    /\ built = <<>>

----------------------------------------------------------------------------
(* Shutdown of the controller (RingMqtt.shutdown in src/lib/state.js).     *)
(* The registry devices$.value is the domain of availabilityState.  The    *)
(* wrappers' base class is not part of the sources at hand: a wrapper      *)
(* starts in a state that is neither 'online' nor 'offline', online() and  *)
(* offline() set availabilityState to 'online' and 'offline'.  While       *)
(* shutdown() awaits, the other handlers of the controller go on           *)
(* registering devices and setting them online and offline.                *)

\* wrapper.offline() / wrapper.online() of the base class
Offline(states, ds) == [d \in DOMAIN states |-> IF d \in ds THEN "offline" ELSE states[d]]
Online(states, ds) == [d \in DOMAIN states |-> IF d \in ds THEN "online" ELSE states[d]]

\* shutdown() is called and awaits go2rtc.shutdown()
ShutdownCall ==
    /\ shutdownPc = "running"
    /\ shutdownPc' = "go2rtc"
    /\ UNCHANGED <<availabilityState, shutdownOffline>>
    /\ UNCHANGED nonDownVars

\* go2rtc.shutdown() resolved: with devices in the registry, sleep(1)
Go2rtcShutdownDone ==
    /\ shutdownPc = "go2rtc"
    /\ shutdownPc' = IF Len(availabilityState) > 0 THEN "sleep" ELSE "done"
    /\ UNCHANGED <<availabilityState, shutdownOffline>>
    /\ UNCHANGED nonDownVars

ShutdownSleepDone_FlagOnly ==
    /\ shutdownPc = "sleep"
    /\ shutdownOffline' = {d \in DOMAIN availabilityState : availabilityState[d] = "online"}
    /\ UNCHANGED availabilityState
    /\ shutdownPc' = "done"
    /\ UNCHANGED nonDownVars

\* sleep(1) is over: every wrapper that is online is flagged and set offline
ShutdownSleepDone ==
    /\ shutdownPc = "sleep"
    /\ LET online == {d \in DOMAIN availabilityState : availabilityState[d] = "online"}
       IN  /\ shutdownOffline' = online
           /\ availabilityState' = Offline(availabilityState, online)
    /\ shutdownPc' = "done"
    /\ UNCHANGED nonDownVars

\* processDevices registers a wrapper (line 290)
DeviceRegistered ==
    /\ shutdownPc # "done"
    /\ Len(availabilityState) < MaxRegistered
    /\ availabilityState' =
           [d \in 1..(Len(availabilityState) + 1) |->
               IF d \in DOMAIN availabilityState THEN availabilityState[d] ELSE "init"]
    /\ UNCHANGED <<shutdownPc, shutdownOffline>>
    /\ UNCHANGED nonDownVars

\* publishDevices publishes a wrapper, which goes online (line 408)
DeviceOnline ==
    /\ shutdownPc # "done"
    /\ \E d \in DOMAIN availabilityState :
           /\ availabilityState[d] # "online"
           /\ availabilityState' = Online(availabilityState, {d})
    /\ UNCHANGED <<shutdownPc, shutdownOffline>>
    /\ UNCHANGED nonDownVars

\* handleLocationDisconnect sets the wrappers of a location offline (line 399)
DeviceOffline ==
    /\ shutdownPc # "done"
    /\ \E ds \in SUBSET DOMAIN availabilityState :
           /\ \E d \in ds : availabilityState[d] # "offline"
           /\ availabilityState' = Offline(availabilityState, ds)
    /\ UNCHANGED <<shutdownPc, shutdownOffline>>
    /\ UNCHANGED nonDownVars

\* the controller after construction: no wrapper, shutdown() not called
DownIdle ==
    /\ availabilityState = <<>>
    /\ shutdownPc = "running"
    /\ shutdownOffline = {}

----------------------------------------------------------------------------
(* Specification of the lifecycle controller *)

TokenInit ==
    /\ client = "null"
    /\ subscribed = FALSE
    /\ refreshToken = Undefined
    /\ restToken = Undefined
    /\ authPromise = FALSE
    /\ ringToken \in {Empty, SavedToken}
    /\ fileToken = ringToken
    /\ initPc = "idle"
    /\ issued = 0
    /\ lastRotated = Undefined
    /\ knownGood = Undefined
    /\ tick = "none"
    /\ constructed = FALSE
    /\ initReturn = "none"

CtrlInit ==
    /\ mqttConnected = FALSE
    /\ locations = <<>>
    /\ devices = <<>>
    /\ republishCount = RepublishDefault
    /\ isSubscribed = [l \in Locs |-> FALSE]
    /\ isConnected = [l \in Locs |-> FALSE]
    /\ hasHubs \in [Locs -> BOOLEAN]
    /\ enableCameras \in BOOLEAN
    /\ wsValue = [l \in Locs |-> FALSE]
    /\ started = FALSE
    /\ tasks = EmptyBag
    /\ pubCalls = {}
    /\ offCalls = {}
    /\ logged = {}
    /\ pubSince = {}
    /\ knownAtConn = {}
    /\ everDisc = FALSE
    /\ wsReported = {}
    /\ discoveries = 0

\* the controller with no account and no cameras
CtrlIdle == CtrlInit /\ hasHubs = [l \in Locs |-> FALSE] /\ enableCameras = FALSE

\* the session with no saved token
TokenIdle == TokenInit /\ ringToken = Empty

\* the controller with the other components left as constructed
Init == CtrlInit /\ TokenIdle /\ LockInit /\ BeamIdle /\ MtxIdle /\ MapIdle /\ TopicIdle /\ DownIdle /\ StoreIdle

\* what a step adds to the history of the run
Observe ==
    /\ pubSince' = IF ~mqttConnected' THEN {}
                   ELSE IF ~mqttConnected THEN pubCalls'
                   ELSE pubSince \cup pubCalls'
    /\ knownAtConn' = IF ~mqttConnected' THEN {}
                      ELSE IF ~mqttConnected THEN WithDevices
                      ELSE knownAtConn
    /\ everDisc' = (everDisc \/ (mqttConnected /\ ~mqttConnected'))
    /\ wsReported' = wsReported \cup {l \in Locs : isConnected'[l] /\ ~isConnected[l]}
    /\ discoveries' = IF CopiesIn(GetLocationsTask, tasks') > CopiesIn(GetLocationsTask, tasks)
                      THEN discoveries + 1
                      ELSE discoveries

\* the history is recorded or left as it is
Record(h) == IF h THEN Observe ELSE UNCHANGED histVars

\* one step of the controller
Step(h) ==
    \/ \E s \in {"connected", "disconnected"} : MqttState(s) /\ Record(h)
    \/ \E message \in {"online", "offline"} : HaStatus(message) /\ Record(h)
    \/ \E l \in Locs : WsChange(l) /\ Record(h)
    \/ \E t \in TaskSet : GetLocationsDone(t) /\ Record(h)
    \/ \E t \in TaskSet : GetDevicesDone(t) /\ Record(h)
    \/ \E t \in TaskSet : MapDeviceDone(t) /\ Record(h)
    \/ \E t \in TaskSet : InitRingDataReturned(t) /\ Record(h)
    \/ \E t \in TaskSet : LoopSleepDone(t) /\ Record(h)
    \/ \E t \in TaskSet : HaSleepDone(t) /\ Record(h)
    \/ \E t \in TaskSet : GraceSleepDone(t) /\ Record(h)

Next == Step(FALSE)

Spec == Init /\ [][Next]_vars

(* The lifecycle controller with the history of the run recorded *)

NextHistory == Step(TRUE)

SpecHistory == Init /\ [][NextHistory]_vars

(* Specification of the vendor session and the state store *)

NextToken ==
    \/ \E generatedToken \in {Empty, GeneratedToken} : RingInit(generatedToken)
    \/ \E ok \in BOOLEAN : RingInitDone(ok)
    \/ \E writeOk \in BOOLEAN : TokenRotated(writeOk)
    \/ TokenLost
    \/ RefreshTokenCheck

\* the session with the controller left as constructed
InitToken == CtrlIdle /\ TokenInit /\ LockInit /\ BeamIdle /\ MtxIdle /\ MapIdle /\ TopicIdle /\ DownIdle /\ StoreIdle

SpecToken == InitToken /\ [][NextToken]_vars

(* Specification of the intercom wrapper *)

LockMessages == {StrLock, <<"L", "o", "c", "k">>, StrUnlock,
                 <<"U", "N", "L", "O", "C", "K">>, <<"o", "n">>}

NextLock ==
    \/ DeviceUnlocked
    \/ DeviceDing
    \/ \E tm \in timers : UnlockTimeoutExpired(tm)
    \/ \E tm \in timers : DingTimeoutExpired(tm)
    \/ \E command \in {"lock/command", "ding/command"}, message \in LockMessages :
           ProcessCommand(command, message)
    \/ \E ok \in BOOLEAN : UnlockDone(ok)
    \/ \E forced \in BOOLEAN : PublishState(forced)

InitLock == CtrlIdle /\ TokenIdle /\ LockInit /\ BeamIdle /\ MtxIdle /\ MapIdle /\ TopicIdle /\ DownIdle /\ StoreIdle

SpecLock == InitLock /\ [][NextLock]_vars

(* Specification of the beam wrapper: one command, drawn from the payloads *)
(* of up to MaxPayloadLen characters, is delivered and processed           *)

BeamChars == {"0", "1", "9", " ", "-", "o", "n", "f", "O", "N", "F"}

BeamPayloads == UNION {[1..n -> BeamChars] : n \in 0..MaxPayloadLen}

BeamTopicLevels == {"switch_command", "brightness_command", "motion_command"}

\* init(): isLightGroup and groupId of a light group, with and without a
\* group id, and of a single light
BeamInit ==
    /\ isLightGroup \in BOOLEAN
    /\ groupId \in IF isLightGroup THEN {Undefined, <<"g", "1">>} ELSE {Undefined}
    /\ beamCommand \in [message : BeamPayloads, cmdTopicLevel : BeamTopicLevels]
    /\ beamPc = "received"
    /\ vendorCalls = <<>>

NextBeam == BeamProcessCommand

InitBeam == CtrlIdle /\ TokenIdle /\ LockInit /\ BeamInit /\ MtxIdle /\ MapIdle /\ TopicIdle /\ DownIdle /\ StoreIdle

SpecBeam == InitBeam /\ [][NextBeam]_vars

(* Specification of the media supervisor *)

\* the camera lists handed to init(): up to MaxCameras device ids
CameraLists == {[i \in 1..n |-> ToString(i)] : n \in 0..MaxCameras}

NextMedia ==
    \/ MtxInit
    \/ \E ok \in BOOLEAN : MtxWriteDone(ok)
    \/ \E p \in running : MtxProcessExit(p)
    \/ \E t \in closeTasks : MtxCloseSleep1Done(t)
    \/ \E t \in closeTasks : MtxCloseSleep5Done(t)
    \/ MtxShutdown

InitMedia ==
    /\ CtrlIdle /\ TokenIdle /\ LockInit /\ BeamIdle /\ MapIdle /\ TopicIdle /\ DownIdle /\ StoreIdle
    /\ \E cameras \in CameraLists : MtxConstructed(cameras)

SpecMedia == InitMedia /\ [][NextMedia]_vars

\* the timers of the 'close' handlers fire
MediaFairness ==
    /\ WF_vars(\E t \in closeTasks : MtxCloseSleep1Done(t))
    /\ WF_vars(\E t \in closeTasks : MtxCloseSleep5Done(t))

SpecMediaLive == SpecMedia /\ MediaFairness

(* Specification of the device mapper: a device list is drawn, its last    *)
(* device is mapped and processed                                          *)

\* a device list is drawn: up to MaxSiblings devices and the device to map
MapInit ==
    LET \* a parentZid that names no device of the list
        DanglingZid == 99
        \* raw device with id i of the given shape
        RawDevice(i, shape) ==
            [id |-> i, deviceType |-> shape.deviceType, class |-> shape.class,
             hasParentZid |-> shape.parent # 0, parentZid |-> shape.parent,
             categoryId |-> shape.categoryId, hidden |-> shape.hidden]
        Shapes(types, classes, parents, categoryId, hidden) ==
            [deviceType : types, class : classes, parent : parents,
             categoryId : {categoryId}, hidden : {hidden}]
        \* parent references of the device to map, in a list of n devices:
        \* none (0), a device of the list, or a device that is not in it
        ParentRefs(n) == 0..n \cup {DanglingZid}
        \* parent references of the other devices: none, the first device
        \* of the list, or the device to map
        SiblingParentRefs(n) == {0, 1, n}
        \* the other devices of the list: thermostats and security panels
        SiblingShapes(n) ==
            Shapes({RingDeviceType("Thermostat"), RingDeviceType("SecurityPanel")},
                   {"RingDevice"}, SiblingParentRefs(n), 0, FALSE)
        \* device types that are no key of `creators`
        UnknownTypes ==
            {<<"lock", "x">>, <<"locker">>, <<"unknown", "zwave">>, <<"sensor", "lock">>,
             <<"constructor">>, <<"toString">>, <<"__proto__">>}
        \* the device to map: every key of `creators` and the unknown types,
        \* a fan, a hidden network adapter, a camera, a chime and an intercom
        MappedShapes(n) ==
            Shapes({Creators[i].key : i \in 1..Len(Creators)} \cup UnknownTypes,
                   {"RingDevice"}, ParentRefs(n), 0, FALSE)
            \cup
            Shapes({RingDeviceType("MultiLevelSwitch")}, {"RingDevice"}, ParentRefs(n), 17, FALSE)
            \cup
            Shapes({RingDeviceType("RingNetAdapter")}, {"RingDevice"}, ParentRefs(n), 0, TRUE)
            \cup
            Shapes({<<"camera">>}, {"RingCamera", "RingChime", "RingIntercom"},
                   ParentRefs(n), 0, FALSE)
    IN  /\ \E n \in 0..MaxSiblings :
               \E sib \in [1..n -> SiblingShapes(n + 1)], dev \in MappedShapes(n + 1) :
                   allDevices = [i \in 1..(n + 1) |->
                                    IF i <= n THEN RawDevice(i, sib[i]) ELSE RawDevice(i, dev)]
        /\ mapPc = "input"
        /\ deviceInfo = NoInfo
        /\ mappedDevice = Value("none", "")
        /\ processed = "none"

InitMapper ==
    /\ CtrlIdle /\ TokenIdle /\ LockInit /\ BeamIdle /\ MtxIdle /\ TopicIdle /\ DownIdle /\ StoreIdle
    /\ MapInit

SpecMapper == InitMapper /\ [][MapDeviceCall]_vars

(* Specification of the wrapper topics: a wrapper is drawn and init() is   *)
(* called on it, up to MaxInits times                                      *)

TopicWrappers ==
    LET AlarmTopics == {<<"ring">> \o Slash \o l \o Slash \o <<"alarm">> :
                           l \in {<<"loc1">>, <<"loc2">>}}
        LocationIds == {<<"loc1">>, <<"loc2">>}
        DeviceIds == {<<"dev1">>, <<"dev2">>}
        \* device.deviceType of the devices a ContactSensor wraps
        ContactTypes == {<<"sensor", "contact">>, <<"sensor", "zone">>}
        \* device types of the lighting devices: what a global deviceType
        \* may hold
        BeamTypes ==
            {<<"switch", "transformer", "beams">>, <<"motion-sensor", "beams">>,
             <<"switch", "multilevel", "beams">>, <<"group", "light-group", "beams">>}
    IN  {NewTopicWrapper("ContactSensor", a, l, d, Undefined, t, FALSE, Undefined) :
            a \in AlarmTopics, l \in LocationIds, d \in DeviceIds, t \in ContactTypes}
        \cup
        {NewTopicWrapper("Beam", a, l, d, <<"light">>, Undefined, g[1], g[2]) :
            a \in AlarmTopics, l \in LocationIds, d \in DeviceIds,
            g \in BOOLEAN \X (BeamTypes \cup {Undefined})}

NextTopics == ContactSensorInitCall \/ BeamInitCall

InitTopics ==
    /\ CtrlIdle /\ TokenIdle /\ LockInit /\ BeamIdle /\ MtxIdle /\ MapIdle /\ DownIdle /\ StoreIdle
    /\ wrapper \in TopicWrappers
    /\ built = <<>>

SpecTopics == InitTopics /\ [][NextTopics]_vars

(* Specification of the shutdown *)

NextShutdown ==
    \/ ShutdownCall
    \/ Go2rtcShutdownDone
    \/ ShutdownSleepDone
    \/ DeviceRegistered
    \/ DeviceOnline
    \/ DeviceOffline

InitShutdown ==
    /\ CtrlIdle /\ TokenIdle /\ LockInit /\ BeamIdle /\ MtxIdle /\ MapIdle /\ TopicIdle
    /\ StoreIdle
    /\ DownIdle

SpecShutdown == InitShutdown /\ [][NextShutdown]_vars

(* Specification of the state store: a state file is drawn, init loads it *)

\* the state files: none, damaged ones, and JSON objects with any of the
\* three properties the application writes
StateFiles ==
    LET Values == [ring_token |-> {Empty, SavedToken, GeneratedToken},
                   systemId |-> {Empty, <<"id1">>},
                   devices |-> {<<>>, <<"device1">>}]
        AnyValue == UNION {Values[p] : p \in DOMAIN Values}
        Props == {f \in UNION {[names -> AnyValue] : names \in SUBSET DOMAIN Values} :
                      \A p \in DOMAIN f : f[p] \in Values[p]}
    IN  {[kind |-> k] : k \in {"missing", "unparsable", "null", "number"}}
            \cup {[kind |-> "object", props |-> f] : f \in Props}

NextStore ==
    \E runMode \in {"standard", "docker"}, hex \in {<<"hex1">>, <<"hex2">>} :
        StateInit(runMode, hex)

InitStore ==
    /\ CtrlIdle /\ TokenIdle /\ LockInit /\ BeamIdle /\ MtxIdle /\ MapIdle /\ TopicIdle
    /\ DownIdle
    /\ \E file \in StateFiles : StateConstructed(file)

SpecStore == InitStore /\ [][NextStore]_vars

TypeOK ==
    /\ mqttConnected \in BOOLEAN
    /\ republishCount \in (1 - MaxTasks)..RepublishDefault
    /\ NumTasks <= MaxTasks
    /\ discoveries \in 0..MaxTasks

----------------------------------------------------------------------------
(* Properties of the lifecycle controller *)

MqttTasks == {t \in TaskSet : t.kind = "mqtt"}

\* the republish loops suspended at utils.sleep(30) for location l
LoopsAt(l) ==
    LET loops == {t \in TaskSet : t.pc = "loop" /\ LoopLocation(t) = l}
    IN  BagCardinality([t \in loops |-> CopiesIn(t, tasks)])

\* C1: the device registry holds at most one wrapper per vendor device
\* identifier, also when discovery runs overlap at their awaits.
C1_OneWrapperPerDevice ==
    \A i, j \in 1..Len(devices) :
        devices[i].deviceId = devices[j].deviceId => i = j

\* C2: over any sequence of mqtt_state events, initRingData is started at
\* most once.
C2_DiscoveryOnce == discoveries <= 1

\* C3: once the handlers of an MQTT reconnect have completed with MQTT still
\* connected, every location that had registered devices at the reconnect
\* (and whose publication does not wait for a websocket) has had its devices
\* published since.
C3_ReconnectRepublishesAll ==
    (mqttConnected /\ MqttTasks = {}) =>
        \A l \in knownAtConn : (~hasHubs[l] \/ l \in wsReported) => l \in pubSince

\* C4: device.publish is invoked for a device of a location with hubs only
\* after that location's websocket was reported connected to the controller.
C4_HubPublishAfterWebsocket ==
    \A l \in pubCalls : hasHubs[l] => l \in wsReported

\* C5: once the handler of the first MQTT connection has completed and MQTT
\* was never disconnected, every location without hubs that has registered
\* devices has had them published.
C5_NonHubLocationsPublished ==
    (mqttConnected /\ ~everDisc /\ MqttTasks = {}) =>
        \A l \in WithDevices : ~hasHubs[l] => l \in pubSince

\* C6: a Home Assistant 'online' message received while the republish
\* counter is greater than 0 sets the counter to 6, starts no handler and no
\* republish loop, and publishes nothing.
C6_OnlineDuringCycleResets ==
    [][(HaStatus("online") /\ republishCount > 0) =>
           (/\ republishCount' = RepublishDefault
            /\ tasks' = tasks
            /\ pubCalls' = {})]_vars

C6_Witness ==
    /\ logged = {LogDuringCycle}
    /\ republishCount = RepublishDefault
    /\ \E l \in Locs : LoopsAt(l) = 1

\* C7: while a republish loop started by a Home Assistant restart runs for a
\* location, no second republish loop runs for that location.
C7_OneLoopPerLocation ==
    \A l \in Locs :
        (\E t \in TaskSet : t.kind = "ha" /\ t.pc = "loop" /\ LoopLocation(t) = l)
            => LoopsAt(l) <= 1

\* C8: the republish counter never exceeds 6, every republish cycle
\* decrements it by exactly 1, and after the decrement the loop goes on if and
\* only if the counter is still greater than 0 and MQTT is connected; so a
\* loop ends after at most 6 cycles unless the counter is set again.
C8_LoopDecrementsAndStops ==
    /\ [](republishCount <= RepublishDefault)
    /\ [][\A t \in TaskSet :
             LoopSleepDone(t) =>
                 /\ republishCount' = republishCount - 1
                 /\ (CopiesIn(t, tasks') = CopiesIn(t, tasks))
                        <=> (republishCount' > 0 /\ mqttConnected)]_vars

C8_Witness ==
    /\ republishCount = 0
    /\ mqttConnected
    /\ WithDevices # {}
    /\ tasks = EmptyBag

\* C9: when the websocket of a subscribed location reports disconnected,
\* nothing is set offline at once and a re-check is scheduled; at the
\* re-check after the grace period, if the websocket is still disconnected
\* the location is marked not connected and offline() is invoked on exactly
\* the non-camera devices of that location; if the websocket is connected
\* again, offline() is invoked on no device and the location's connected
\* mark is unchanged.
C9_GraceThenOffline ==
    [][/\ \A l \in Locs :
              (WsChange(l) /\ wsValue[l] /\ isSubscribed[l]) =>
                  /\ offCalls' = {}
                  /\ isConnected' = isConnected
                  /\ CopiesIn(WsTask(l, "grace"), tasks')
                         = CopiesIn(WsTask(l, "grace"), tasks) + 1
       /\ \A t \in TaskSet :
              GraceSleepDone(t) =>
                  IF ~wsValue[t.loc]
                  THEN /\ ~isConnected'[t.loc]
                       /\ offCalls' = {i \in 1..Len(devices) :
                                          /\ devices[i].locationId = t.loc
                                          /\ ~devices[i].camera}
                       /\ \A l \in Locs \ {t.loc} : isConnected'[l] = isConnected[l]
                  ELSE /\ offCalls' = {}
                       /\ isConnected' = isConnected]_vars

C9_Witness ==
    \E l \in Locs :
        /\ isSubscribed[l]
        /\ ~isConnected[l]
        /\ offCalls # {}
        /\ \A i \in offCalls : devices[i].locationId = l
        /\ \E i \in 1..Len(devices) : devices[i].locationId = l /\ devices[i].camera
        /\ \E i \in 1..Len(devices) : devices[i].locationId # l /\ ~devices[i].camera

\* C31: when the websocket of a subscribed hub location reports connected
\* again after the location was marked disconnected (its devices were set
\* offline), while MQTT is connected, publish is invoked on the devices of
\* the location in the subscriber's run, or a handler is left suspended
\* that can still invoke it without a further event.
C31_ReconnectRepublishes ==
    [][\A l \in Locs :
           (/\ WsChange(l) /\ ~wsValue[l]
            /\ isSubscribed[l] /\ ~isConnected[l] /\ l \in wsReported
            /\ mqttConnected)
               => (l \in pubCalls' \/ tasks' # EmptyBag)]_vars

\* C30: the republish counter is within 0..6 in every reachable state.
C30_CounterInRange == republishCount \in 0..RepublishDefault

----------------------------------------------------------------------------
(* Properties of the vendor session and the state store *)

\* C10: after a refresh-token rotation notified with a previous token, the
\* state store's ring_token and the state file hold the new token.
C10_RotationPersisted ==
    Truthy(lastRotated) => (ringToken = lastRotated /\ fileToken = lastRotated)

C29_InitReturnsClientOrFalse ==
    [][/\ \A g \in {Empty, GeneratedToken} : RingInit(g) =>
              IF client = "null"
              THEN constructed' /\ client' = "api"
              ELSE /\ ~constructed'
                   /\ client' = client
                   /\ restToken' = refreshToken'
                   /\ ~authPromise'
       /\ \A ok \in BOOLEAN : RingInitDone(ok) =>
              /\ initReturn' = (IF ok THEN "client" ELSE "false")
              /\ ~constructed'
              /\ (initPc = "connect" /\ ~ok) => client' = "null"
              /\ (initPc = "connect" /\ ok) => client' = client
              /\ initPc = "reestablish" => (client' = client /\ client' # "null")]_vars

C29_Witness ==
    /\ initReturn = "false"
    /\ initPc = "idle"
    /\ client = "api"
    /\ subscribed

----------------------------------------------------------------------------
(* Properties of the intercom wrapper *)

TimersOf(entity) == {tm \in timers : tm.entity = entity}

LockMsg(payload) == [topic |-> "lock", payload |-> payload]
DingMsg(payload) == [topic |-> "ding", payload |-> payload]

Sends(msg) == \E i \in 1..Len(sent') : sent'[i] = msg

\* C12: while the lock entity is UNLOCKED exactly one auto-revert timer is
\* pending; every unlock leaves the entity UNLOCKED with exactly one pending
\* timer (a pending one is replaced) and publishes no LOCKED; the expiry of
\* the timer sets the entity to LOCKED, publishes LOCKED once and leaves no
\* timer pending; and LOCKED is published for an UNLOCKED entity by nothing
\* but that expiry.
C12_UnlockAutoReverts ==
    /\ [](lockState = "UNLOCKED" => TimersOf("lock") = {LockTimer(unlockTimeout)})
    /\ [][/\ (DeviceUnlocked \/ UnlockDone(TRUE)) =>
               /\ lockState' = "UNLOCKED"
               /\ Cardinality(TimersOf("lock")') = 1
               /\ ~Sends(LockMsg("LOCKED"))
          /\ (\E tm \in timers : UnlockTimeoutExpired(tm)) =>
               /\ lockState' = "LOCKED"
               /\ sent' = <<LockMsg("LOCKED")>>
               /\ TimersOf("lock")' = {}
          /\ (lockState = "UNLOCKED" /\ Sends(LockMsg("LOCKED"))) =>
               \E tm \in timers : UnlockTimeoutExpired(tm)]_vars

C12_Witness ==
    /\ lockOp = "unlockExpired"
    /\ lockState = "LOCKED"
    /\ sent = <<LockMsg("LOCKED")>>
    /\ TimersOf("lock") = {}

\* C13: at most one auto-revert timer is pending per entity, and the
\* entity's handle names it.
C13_OneTimerPerEntity ==
    /\ Cardinality(TimersOf("lock")) <= 1
    /\ Cardinality(TimersOf("ding")) <= 1
    /\ TimersOf("lock") = (IF unlockTimeout = 0 THEN {} ELSE {LockTimer(unlockTimeout)})
    /\ TimersOf("ding") = (IF dingTimeout = 0 THEN {} ELSE {DingTimer(dingTimeout)})

C13_Witness ==
    /\ lockOp = "unlockOk"
    /\ unlocking > 0
    /\ TimersOf("lock") # {}
    /\ TimersOf("ding") # {}

\* C14: while the ding entity is ON exactly one timer is pending; a ding
\* leaves the entity ON with exactly one pending timer and, when the entity
\* was ON already, publishes nothing; the expiry of the timer sets the
\* entity to OFF, publishes OFF once and leaves no timer pending.
C14_DingPulse ==
    /\ [](dingState = "ON" => TimersOf("ding") = {DingTimer(dingTimeout)})
    /\ [][/\ DeviceDing =>
               /\ dingState' = "ON"
               /\ Cardinality(TimersOf("ding")') = 1
               /\ sent' = (IF dingState = "ON" THEN <<>> ELSE <<DingMsg("ON")>>)
          /\ (\E tm \in timers : DingTimeoutExpired(tm)) =>
               /\ dingState' = "OFF"
               /\ sent' = <<DingMsg("OFF")>>
               /\ TimersOf("ding")' = {}
          /\ (dingState = "ON" /\ Sends(DingMsg("OFF"))) =>
               \E tm \in timers : DingTimeoutExpired(tm)]_vars

C14_Witness ==
    /\ lockOp = "ding"
    /\ dingState = "ON"
    /\ sent = <<>>
    /\ TimersOf("ding") # {}

\* C15: a non-forced publishState that directly follows a publishState
\* sends nothing; a forced publishState sends the state of the ding and of
\* the lock entity (and the attributes) whatever the cache holds, and
\* leaves the cache equal to the state sent.
C15_PublishStateCache ==
    [][/\ (PublishState(FALSE) /\ lockOp = "publishState") => sent' = <<>>
       /\ PublishState(TRUE) =>
           /\ sent' = <<DingMsg(dingState), LockMsg(lockState)>> \o PublishAttributes
           /\ dingPublished' = dingState
           /\ lockPublished' = lockState]_vars

C15_Witness ==
    /\ lockOp = "publishState"
    /\ Len(sent) = 3
    /\ lockState = "UNLOCKED" /\ lockPublished = "UNLOCKED"
    /\ dingState = "ON" /\ dingPublished = "ON"

\* C33: once an entity (lock, ding) has been published, after every
\* operation its cached publishedState equals its state and the last value
\* sent on its state topic: an operation that sends on the topic sends the
\* new state once and caches it, one that sends nothing leaves state and
\* cache alone, and a non-forced publish never repeats the cached value.
C33_CacheTracksState ==
    [][LET lockSent == {i \in 1..Len(sent') : sent'[i].topic = "lock"}
           dingSent == {i \in 1..Len(sent') : sent'[i].topic = "ding"}
       IN  /\ lockPublished' # "null" => lockPublished' = lockState'
           /\ dingPublished' # "null" => dingPublished' = dingState'
           /\ IF lockSent = {}
              THEN lockPublished' = lockPublished
              ELSE /\ Cardinality(lockSent) = 1
                   /\ \A i \in lockSent : sent'[i].payload = lockPublished'
                   /\ ~PublishState(TRUE) => lockPublished' # lockPublished
           /\ IF dingSent = {}
              THEN dingPublished' = dingPublished
              ELSE /\ Cardinality(dingSent) = 1
                   /\ \A i \in dingSent : sent'[i].payload = dingPublished'
                   /\ ~PublishState(TRUE) => dingPublished' # dingPublished]_vars

C33_Witness ==
    /\ lockOp = "command"
    /\ sent = <<>>
    /\ lockState = "UNLOCKED" /\ lockPublished = "UNLOCKED"
    /\ dingState = "OFF" /\ dingPublished = "OFF"
    /\ TimersOf("lock") # {}

\* C16: when the vendor call of an 'unlock' command fails, the lock
\* entity's state, its cached published state and its pending timer are
\* unchanged, nothing is published, device.unlock() is not called again
\* and no error leaves the handler.
C16_UnlockFailureIsLocal ==
    [][UnlockDone(FALSE) =>
           /\ UNCHANGED <<lockState, lockPublished, unlockTimeout, timers>>
           /\ sent' = <<>>
           /\ unlockCalls' = 0
           /\ ~unhandled']_vars

C16_Witness ==
    /\ lockOp = "unlockFailed"
    /\ lockState = "UNLOCKED"
    /\ unlockTimeout # 0
    /\ ~unhandled

\* C28: a 'lock' command processed while the lock entity is UNLOCKED sets
\* it to LOCKED and publishes LOCKED; processed while the entity is LOCKED
\* it changes nothing and publishes nothing.
C28_LockCommandLocks ==
    [][\A message \in LockMessages :
           (ProcessCommand("lock/command", message) /\ ToLowerCase(message) = StrLock) =>
               IF lockState = "UNLOCKED"
               THEN lockState' = "LOCKED" /\ sent' = <<LockMsg("LOCKED")>>
               ELSE UNCHANGED <<lockState, lockPublished>> /\ sent' = <<>>]_vars

----------------------------------------------------------------------------
(* Properties of the beam wrapper *)

\* a decimal numeral: digits with an optional sign, white space around it
\* allowed
IsNumeric(str) ==
    LET t == Trim(str) IN
    \/ IsDigits(t)
    \/ t # <<>> /\ Head(t) \in {"-", "+"} /\ IsDigits(Tail(t))

\* the value of a decimal numeral
NumericValue(str) ==
    LET t == Trim(str) IN
    IF IsDigits(t) THEN DecimalValue(t)
    ELSE IF Head(t) = "-" THEN 0 - DecimalValue(Tail(t))
    ELSE DecimalValue(Tail(t))

ValidLevel(str) == IsNumeric(str) /\ NumericValue(str) >= 0 /\ NumericValue(str) <= 100

\* C17: once processCommand has returned, a brightness command has made one
\* setInfo call with level payload/100 if the payload is numeric and within
\* 0..100 and no vendor call otherwise; a switch command has made one vendor
\* call if the payload is 'on' or 'off' ignoring case and none otherwise; a
\* command of any other topic level has made no vendor call.
C17_CommandValidation ==
    beamPc = "done" =>
        LET message == beamCommand.message
            level == beamCommand.cmdTopicLevel
        IN  /\ level = "brightness_command" =>
                vendorCalls =
                    IF ValidLevel(message)
                    THEN <<[call |-> "setInfo",
                            level |-> [num |-> NumericValue(message), den |-> 100]]>>
                    ELSE <<>>
            /\ level = "switch_command" =>
                Len(vendorCalls) =
                    IF ToLowerCase(message) \in {StrOn, StrOff} THEN 1 ELSE 0
            /\ level \notin {"brightness_command", "switch_command"} =>
                vendorCalls = <<>>

----------------------------------------------------------------------------
(* Properties of the media supervisor *)

\* C18: a crash of the child process while no shutdown has been requested
\* leads to a restart (the spawn made by the 'close' handler after its
\* delay) unless shutdown is requested meanwhile, whatever the number of
\* restarts made before.
C18_CrashLeadsToRestart ==
    (mtxOp = "exit" /\ ~shutdownCalled) ~> (mtxOp = "restart" \/ shutdownCalled)

C18_Witness ==
    /\ mtxOp = "restart"
    /\ spawned >= 3
    /\ ~shutdownCalled
    /\ mediamtxProcess = spawned
    /\ mediamtxProcess \in running

\* C19: once shutdown() has been called no child process is spawned and
\* none is tracked in this.mediamtxProcess.
C19_ShutdownIsFinal ==
    [][shutdownCalled => (spawned' = spawned /\ mediamtxProcess' = 0)]_vars

\* C20: the init() call that spawns a child process, at the start and at a
\* restart, has called writeFileAtomic for the configuration file before,
\* and when the write succeeded the file holds the two path entries of every
\* camera.
C20_ConfigWrittenBeforeSpawn ==
    mtxOp \in {"start", "restart"} =>
        /\ configWrite # "none"
        /\ configWrite = "written" => configFile = FileWith(ConfigPaths(mtxCameras))

\* C32: at most one child process started by the supervisor is alive after
\* every step (start, crash, the two delays of the 'close' handler with its
\* force-kill, shutdown), and a step that spawns a child process is taken
\* only when no child process is alive.
C32_AtMostOneProcess ==
    [][/\ Cardinality(running') <= 1
       /\ spawned' # spawned => (running = {} /\ running' = {spawned'})]_vars

C32_Witness ==
    /\ mtxOp = "restart"
    /\ spawned >= 2
    /\ running = {spawned}
    /\ closeTasks = {}

----------------------------------------------------------------------------
(* Properties of the state store *)

\* C34: State.init never ends with an error; with a missing or unparsable
\* state file it ends with valid = false and the default data; valid is
\* true only when the file was read, and then data.systemId is a non-empty
\* string.
C34_LoadNeverRaises ==
    LET unread == store.file.kind \in {"missing", "unparsable"}
    IN  /\ store.pc # "threw"
        /\ (store.pc # "new" /\ unread) =>
               (store.pc = "returned" /\ ~store.valid /\ store.data = DefaultData)
        /\ store.valid =>
               /\ ~unread
               /\ store.data.kind = "object"
               /\ "systemId" \in DOMAIN store.data.props
               /\ store.data.props.systemId # Empty

----------------------------------------------------------------------------
(* Properties of the device mapper *)

\* the device that was mapped
MappedRaw == allDevices[Len(allDevices)]

\* C22: a device (no camera, chime or intercom) whose type is in the ignore
\* set maps to 'ignore', and processDevices neither registers it nor lists
\* it as unsupported.
C22_IgnoredTypesAreIgnored ==
    LET IgnoredTypes ==
            {RingDeviceType("BeamsSwitch"), <<"access-code">>, <<"access-code", "vault">>,
             <<"adapter", "sidewalk">>, <<"adapter", "shadow">>, <<"adapter", "zigbee">>,
             <<"adapter", "zwave">>, <<"thermostat-operating-status">>}
    IN  (/\ mapPc = "done"
         /\ MappedRaw.class = "RingDevice"
         /\ MappedRaw.deviceType \in IgnoredTypes) =>
            /\ mappedDevice = Value("ignore", "")
            /\ processed = "skipped"

C22_Witness ==
    /\ mapPc = "done"
    /\ MappedRaw.class = "RingDevice"
    /\ MappedRaw.deviceType = <<"adapter", "zwave">>
    /\ MappedRaw.hasParentZid
    /\ Len(allDevices) = 2
    /\ processed = "skipped"

\* C23: a device (no camera, chime or intercom) whose type string is no key
\* of the creators table maps to a Lock wrapper when the type is 'lock' or
\* starts with 'lock.', and to 'not-supported' for every other string.
C23_UnknownTypesUnsupported ==
    LET \* the keys the object literal spells out (the getter `lock` apart)
        TableKeys == {Creators[i].key : i \in 1..Len(Creators)} \ {<<"lock">>}
    IN  (/\ mapPc = "done"
         /\ MappedRaw.class = "RingDevice"
         /\ MappedRaw.deviceType \notin TableKeys) =>
            IF MappedRaw.deviceType = <<"lock">>
                   \/ StartsWithDotted(MappedRaw.deviceType, <<"lock">>)
            THEN mappedDevice = Value("wrapper", "Lock")
            ELSE mappedDevice = Value("not-supported", "")

\* C24: a TemperatureSensor whose parentZid resolves to a Thermostat maps to
\* 'ignore'; a TemperatureSensor without a parent reference maps to a
\* TemperatureSensor wrapper.
C24_ThermostatSensorIgnored ==
    (/\ mapPc = "done"
     /\ MappedRaw.class = "RingDevice"
     /\ MappedRaw.deviceType = RingDeviceType("TemperatureSensor")) =>
        /\ (/\ MappedRaw.hasParentZid
            /\ \E a \in 1..Len(allDevices) :
                   /\ allDevices[a].id = MappedRaw.parentZid
                   /\ allDevices[a].deviceType = RingDeviceType("Thermostat"))
              => (mappedDevice = Value("ignore", "") /\ processed = "skipped")
        /\ ~MappedRaw.hasParentZid
              => (mappedDevice = Value("wrapper", "TemperatureSensor") /\ processed = "added")

C24_Witness ==
    /\ mapPc = "done"
    /\ MappedRaw.class = "RingDevice"
    /\ MappedRaw.deviceType = RingDeviceType("TemperatureSensor")
    /\ MappedRaw.hasParentZid
    /\ Len(allDevices) = 3
    /\ MappedRaw.parentZid = 2
    /\ allDevices[2].deviceType = RingDeviceType("Thermostat")
    /\ allDevices[1].deviceType = RingDeviceType("SecurityPanel")
    /\ mappedDevice = Value("ignore", "")

\* C25: mapDevice never throws, whatever the device and its siblings (a
\* parentZid that matches no sibling, an unknown type), so processDevices
\* is not aborted.
C25_MapDeviceNeverThrows ==
    mapPc = "done" =>
        /\ mappedDevice.kind # "throws"
        /\ processed # "thrown"

\* C26: with B.parentZid = A.id in one list, the info built for B has
\* parentDevice resolving to A, the info built for A has childDevices equal
\* to exactly the devices of the list whose parentZid is A.id, and a device
\* no other device names as parent gets no childDevices field.
C26_ParentAndChildren ==
    mapPc = "done" =>
        LET k == Len(allDevices)
            children == {i \in 1..k : /\ allDevices[i].hasParentZid
                                      /\ allDevices[i].parentZid = MappedRaw.id}
            listed == {deviceInfo.childDevices[i] : i \in 1..Len(deviceInfo.childDevices)}
        IN  /\ deviceInfo.device = k
            /\ (MappedRaw.hasParentZid /\ MappedRaw.parentZid \in 1..k) =>
                   /\ deviceInfo.hasParentDevice
                   /\ deviceInfo.parentDevice \in 1..k
                   /\ allDevices[deviceInfo.parentDevice].id = MappedRaw.parentZid
            /\ children # {} =>
                   /\ deviceInfo.hasChildDevices
                   /\ listed = children
                   /\ Len(deviceInfo.childDevices) = Cardinality(children)
            /\ children = {} =>
                   /\ ~deviceInfo.hasChildDevices
                   /\ deviceInfo.childDevices = <<>>

C26_Witness ==
    /\ mapPc = "done"
    /\ Len(allDevices) = 3
    /\ MappedRaw.hasParentZid /\ MappedRaw.parentZid = 1
    /\ allDevices[1].hasParentZid /\ allDevices[1].parentZid = 3
    /\ allDevices[2].hasParentZid /\ allDevices[2].parentZid = 1
    /\ deviceInfo.parentDevice = 1
    /\ deviceInfo.childDevices = <<1>>

----------------------------------------------------------------------------
(* Properties of the wrapper topics *)

\* the levels of a topic: the words between its '/'
RECURSIVE Levels(_)
Levels(str) ==
    IF \E i \in 1..Len(str) : str[i] = "/"
    THEN LET i == CHOOSE k \in 1..Len(str) :
                      str[k] = "/" /\ \A j \in 1..(k - 1) : str[j] # "/"
         IN  <<SubSeq(str, 1, i - 1)>> \o Levels(SubSeq(str, i + 1, Len(str)))
    ELSE <<str>>

\* homeassistant/<component>/<locationId>/<deviceId>/config
FollowsConfigScheme(topic, w) ==
    LET lv == Levels(topic)
    IN  /\ Len(lv) = 5
        /\ lv[1] = <<"homeassistant">>
        /\ Len(lv[2]) = 1
        /\ lv[3] = w.locationId
        /\ lv[4] = w.deviceId
        /\ lv[5] = <<"config">>

\* <alarmTopic>/<component>/<deviceId>/<suffix>
FollowsTopicScheme(topic, w) ==
    LET lv == Levels(topic)
        n == Len(Levels(w.alarmTopic))
    IN  /\ Len(lv) = n + 3
        /\ SubSeq(lv, 1, n) = Levels(w.alarmTopic)
        /\ Len(lv[n + 1]) = 1
        /\ lv[n + 2] = w.deviceId
        /\ lv[n + 3] # <<>>

----------------------------------------------------------------------------
(* Properties of the shutdown *)

\* C21: when shutdown() completes, offline() has been called on every
\* registered wrapper that was online, no registered wrapper is online, and
\* the registry holds every wrapper it held.
C21_ShutdownSetsOffline ==
    [][(shutdownPc # "done" /\ shutdownPc' = "done") =>
           /\ \A d \in DOMAIN availabilityState : availabilityState[d] = "online" => d \in shutdownOffline'
           /\ \A d \in DOMAIN availabilityState' : availabilityState'[d] # "online"
           /\ DOMAIN availabilityState \subseteq DOMAIN availabilityState']_vars

C21_Witness ==
    /\ shutdownPc = "done"
    /\ Cardinality(shutdownOffline) = 2
    /\ Len(availabilityState) = 3
    /\ \A d \in DOMAIN availabilityState : availabilityState[d] = "offline"

====
